---- MODULE Spec2Model ----
(***************************************************************************)
(* RedOpSync import engine: the entity store (subnets, hosts, ports,       *)
(* evidence) of one project and the importers that reconcile parsed scan   *)
(* records into it (nmap, masscan, gowitness, plain text, whois), together *)
(* with the human API operations that create and edit the same rows.       *)
(*                                                                         *)
(* Conventions of the model:                                               *)
(*  - a row's id is its index in the table's sequence (insertion order);   *)
(*  - Python None and the empty string are both None for a text column     *)
(*    (the importers only test truthiness), <<>> for banner and caption;   *)
(*  - Query.first() without ORDER BY returns any matching row, so a lookup *)
(*    that can match several rows is a choice over all of them;            *)
(*  - an address is a record: an IPv4 address is its 32-bit number in lo,  *)
(*    an IPv6 address is its upper 64 bits in hi and lower 64 bits in lo;  *)
(*  - the fields src and promoted (of a host) and wr (of a port) are       *)
(*    history fields: who last wrote dns_name, how often ip went from the  *)
(*    sentinel to an address, who last wrote each merged column; the code  *)
(*    never reads them.                                                    *)
(***************************************************************************)
EXTENDS Integers, Sequences, FiniteSets, TLC

VARIABLES hosts, subnets, ports, evidence, run, summary, replay, upload, workers, audit, locks, clock, answer

vars == <<hosts, subnets, ports, evidence, run, summary, replay, upload, workers, audit, locks, clock, answer>>

(***************************************************************************)
(* Bounds of the model.                                                    *)
(***************************************************************************)
MaxHosts == 2
MaxPorts == 2
MaxEvidence == 4
MaxFileLen == 1
MaxReplayLen == 3

(***************************************************************************)
(* Values.                                                                 *)
(***************************************************************************)
None == "None"

NMAP_SOURCE == "nmap"
MASSCAN_SOURCE == "masscan"
GOWITNESS_SOURCE == "gowitness"
TEXT_IMPORT_SOURCE == "text file import"
WHOIS_SOURCE == "whois_import"
HUMAN == "human"

UNRESOLVED_IP == [kind |-> "unresolved", hi |-> 0, lo |-> 0]

IPv4(a, b, c, d) == [kind |-> "v4", hi |-> 0, lo |-> ((a * 256 + b) * 256 + c) * 256 + d]

IPv6(h, l) == [kind |-> "v6", hi |-> h, lo |-> l]

NoCidr == [kind |-> "none", hi |-> 0, lo |-> 0, prefix |-> 0]

IsRealIp(ip) == ip.kind \in {"v4", "v6"}

Truthy(x) == x # None

(***************************************************************************)
(* Subnet resolver.                                                        *)
(***************************************************************************)
\* A bucketing by /16 and /48.
cidr_for_ip_wide(ip) ==
    IF ip.kind = "v4"
    THEN [kind |-> "v4", hi |-> 0, lo |-> ip.lo - (ip.lo % 65536), prefix |-> 24]
    ELSE IF ip.kind = "v6"
    THEN [kind |-> "v6", hi |-> ip.hi - (ip.hi % 65536), lo |-> 0, prefix |-> 64]
    ELSE NoCidr

cidr_for_ip(ip) ==
    IF ip.kind = "v4"
    THEN [kind |-> "v4", hi |-> 0, lo |-> ip.lo - (ip.lo % 256), prefix |-> 24]
    ELSE IF ip.kind = "v6"
    THEN [kind |-> "v6", hi |-> ip.hi, lo |-> 0, prefix |-> 64]
    ELSE NoCidr

\* Returns the subnet table after the call and the id found or created
\* (0 stands for None).
find_or_create_subnet_for_ip(subs, ip) ==
    LET cidr == cidr_for_ip(ip)
        found == {k \in 1..Len(subs) : subs[k] = cidr}
    IN  IF cidr = NoCidr THEN [subnets |-> subs, id |-> 0]
        ELSE IF found # {}
        THEN [subnets |-> subs, id |-> CHOOSE k \in found : \A m \in found : k <= m]
        ELSE [subnets |-> Append(subs, cidr), id |-> Len(subs) + 1]

(***************************************************************************)
(* Host rows.                                                              *)
(***************************************************************************)
HostRow(ip, dns, status, subnet, src) ==
    [ip |-> ip, dns_name |-> dns, status |-> status, subnet_id |-> subnet, src |-> src,
     promoted |-> 0]

HostIds(hs) == 1..Len(hs)

\* A query's .first(): any row of the match set, or 0 (None) when it is empty.
First(matches) == IF matches = {} THEN {0} ELSE matches

(***************************************************************************)
(* nmap: host reconciliation.                                              *)
(***************************************************************************)
host_status_from_nmap(nh) ==
    IF nh.is_unresolved THEN "unresolved"
    ELSE IF nh.status = "up" THEN "online" ELSE "offline"

\* A lookup that ignores the hostname of a resolved record.
nmap_host_lookup_by_ip(hs, nh) ==
    IF ~nh.is_unresolved /\ nh.ip # UNRESOLVED_IP
    THEN First({i \in HostIds(hs) : hs[i].ip = nh.ip})
    ELSE IF ~Truthy(nh.hostname) THEN {0}
         ELSE First({i \in HostIds(hs) : hs[i].dns_name = nh.hostname})

\* The rows the lookup of _find_or_create_host may return as `existing`.
nmap_host_lookup(hs, nh) ==
    LET dns == nh.hostname
        byIpDns == {i \in HostIds(hs) : hs[i].ip = nh.ip /\ hs[i].dns_name = dns}
        sentinel == {i \in HostIds(hs) : hs[i].ip = UNRESOLVED_IP /\ hs[i].dns_name = dns}
        byDns == {i \in HostIds(hs) : hs[i].dns_name = dns}
    IN  IF ~nh.is_unresolved /\ nh.ip # UNRESOLVED_IP
        THEN IF byIpDns # {} THEN byIpDns
             ELSE IF Truthy(dns) THEN First(sentinel) ELSE {0}
        ELSE IF ~Truthy(dns) THEN {0}
             ELSE IF byDns # {} THEN byDns ELSE First(sentinel)

\* A reconciler that fills in the address of a matched sentinel row but
\* leaves its subnet alone.
nmap_find_or_create_host_no_subnet(hs, subs, nh, existing) ==
    IF existing # 0
    THEN [hosts |-> IF hs[existing].ip = UNRESOLVED_IP /\ ~nh.is_unresolved
                    THEN [hs EXCEPT ![existing].ip = nh.ip, ![existing].promoted = @ + 1]
                    ELSE hs,
          subnets |-> subs, host |-> existing, created |-> FALSE]
    ELSE [hosts |-> Append(hs, HostRow(nh.ip, nh.hostname, host_status_from_nmap(nh), 0,
                                       IF Truthy(nh.hostname) THEN NMAP_SOURCE ELSE None)),
          subnets |-> subs, host |-> Len(hs) + 1, created |-> TRUE]

\* A reconciler that looks the key up again before it inserts.
nmap_find_or_create_host_rechecked(hs, subs, nh, existing) ==
    LET now == {i \in HostIds(hs) : hs[i].ip = nh.ip /\ hs[i].dns_name = nh.hostname}
    IN  IF existing = 0 /\ now # {}
        THEN [hosts |-> hs, subnets |-> subs, host |-> CHOOSE i \in now : TRUE,
              created |-> FALSE]
        ELSE nmap_find_or_create_host_no_subnet(hs, subs, nh, existing)

nmap_find_or_create_host(hs, subs, nh, existing) ==
    LET dns == nh.hostname
        resolved == ~nh.is_unresolved /\ nh.ip # UNRESOLVED_IP
    IN  IF existing # 0
        THEN LET e0 == hs[existing]
                 e1 == IF Truthy(dns) /\ e0.dns_name # dns
                       THEN [e0 EXCEPT !.dns_name = dns, !.src = NMAP_SOURCE] ELSE e0
                 promote == e1.ip = UNRESOLVED_IP /\ resolved
                 sub == IF promote THEN find_or_create_subnet_for_ip(subs, nh.ip)
                        ELSE [subnets |-> subs, id |-> 0]
                 e2 == IF promote
                       THEN [e1 EXCEPT !.ip = nh.ip,
                                       !.subnet_id = IF sub.id # 0 THEN sub.id ELSE @,
                                       !.promoted = @ + 1]
                       ELSE e1
                 e3 == IF e2.status = "unknown"
                       THEN [e2 EXCEPT !.status = host_status_from_nmap(nh)] ELSE e2
                 e4 == IF nh.is_unresolved THEN [e3 EXCEPT !.status = "unresolved"] ELSE e3
             IN  [hosts |-> [hs EXCEPT ![existing] = e4], subnets |-> sub.subnets,
                  host |-> existing, created |-> FALSE]
        ELSE LET sub == IF resolved THEN find_or_create_subnet_for_ip(subs, nh.ip)
                        ELSE [subnets |-> subs, id |-> 0]
             IN  [hosts |-> Append(hs, HostRow(nh.ip, dns, host_status_from_nmap(nh), sub.id,
                                               IF Truthy(dns) THEN NMAP_SOURCE ELSE None)),
                  subnets |-> sub.subnets, host |-> Len(hs) + 1, created |-> TRUE]

(***************************************************************************)
(* masscan, plain text, whois: host reconciliation (match by IP).          *)
(***************************************************************************)
masscan_host_lookup(hs, mh) == First({i \in HostIds(hs) : hs[i].ip = mh.ip})

\* A variant of the masscan host reconciler that creates hosts with no
\* status decided.
masscan_find_or_create_host_unknown(hs, subs, mh, existing) ==
    IF existing # 0
    THEN [hosts |-> hs, subnets |-> subs, host |-> existing, created |-> FALSE]
    ELSE LET sub == find_or_create_subnet_for_ip(subs, mh.ip)
         IN  [hosts |-> Append(hs, HostRow(mh.ip, None, "unknown", sub.id, None)),
              subnets |-> sub.subnets, host |-> Len(hs) + 1, created |-> TRUE]

masscan_find_or_create_host(hs, subs, mh, existing) ==
    IF existing # 0
    THEN [hosts |-> IF hs[existing].status = "unknown"
                    THEN [hs EXCEPT ![existing].status = "online"] ELSE hs,
          subnets |-> subs, host |-> existing, created |-> FALSE]
    ELSE LET sub == find_or_create_subnet_for_ip(subs, mh.ip)
         IN  [hosts |-> Append(hs, HostRow(mh.ip, None, "online", sub.id, None)),
              subnets |-> sub.subnets, host |-> Len(hs) + 1, created |-> TRUE]

text_host_lookup(hs, th) ==
    LET byIp == {i \in HostIds(hs) : hs[i].ip = th.ip}
        byDns == {i \in HostIds(hs) : hs[i].dns_name = th.hostname}
    IN  IF byIp # {} THEN byIp
        ELSE IF Truthy(th.hostname) THEN First(byDns) ELSE {0}

text_find_or_create_host(hs, subs, th, existing) ==
    LET dns == th.hostname
    IN  IF existing # 0
        THEN [hosts |-> IF Truthy(dns) /\ hs[existing].dns_name # dns
                        THEN [hs EXCEPT ![existing].dns_name = dns,
                                        ![existing].src = TEXT_IMPORT_SOURCE]
                        ELSE hs,
              subnets |-> subs, host |-> existing, created |-> FALSE]
        ELSE LET sub == find_or_create_subnet_for_ip(subs, th.ip)
             IN  [hosts |-> Append(hs, HostRow(th.ip, dns, "unknown", sub.id,
                                               IF Truthy(dns) THEN TEXT_IMPORT_SOURCE ELSE None)),
                  subnets |-> sub.subnets, host |-> Len(hs) + 1, created |-> TRUE]

whois_host_lookup(hs, ip) == First({i \in HostIds(hs) : hs[i].ip = ip})

whois_find_or_create_host(hs, subs, ip, existing) ==
    IF existing # 0
    THEN [hosts |-> hs, subnets |-> subs, host |-> existing, created |-> FALSE]
    ELSE LET sub == find_or_create_subnet_for_ip(subs, ip)
         IN  [hosts |-> Append(hs, HostRow(ip, None, "unknown", sub.id, None)),
              subnets |-> sub.subnets, host |-> Len(hs) + 1, created |-> TRUE]

(***************************************************************************)
(* gowitness: host reconciliation.  A parsed URL is                        *)
(* [is_ip, host_ip, host_name, hostname, port, protocol]: parsed.host is   *)
(* host_ip when is_ip and host_name otherwise.                             *)
(***************************************************************************)
gowitness_ip(parsed) == IF parsed.is_ip THEN parsed.host_ip ELSE UNRESOLVED_IP

gowitness_dns(parsed) == IF parsed.is_ip THEN parsed.hostname ELSE parsed.host_name

gowitness_host_lookup(hs, parsed) ==
    LET ip == gowitness_ip(parsed)
        dns == gowitness_dns(parsed)
        byIpDns == {i \in HostIds(hs) : hs[i].ip = ip /\ hs[i].dns_name = dns}
        sentinel == {i \in HostIds(hs) : hs[i].ip = UNRESOLVED_IP /\ hs[i].dns_name = dns}
        byDns == {i \in HostIds(hs) : hs[i].dns_name = dns}
    IN  IF parsed.is_ip
        THEN IF byIpDns # {} THEN byIpDns
             ELSE IF Truthy(dns) THEN First(sentinel) ELSE {0}
        ELSE IF byDns # {} THEN byDns ELSE First(sentinel)

\* A reconciler whose hostname branch resets the address of whatever row it
\* matched, sentinel or not.
gowitness_find_or_create_host_reset(hs, subs, parsed, existing) ==
    IF existing # 0
    THEN [hosts |-> IF ~parsed.is_ip /\ Truthy(parsed.host_name)
                    THEN [hs EXCEPT ![existing].ip = UNRESOLVED_IP] ELSE hs,
          subnets |-> subs, host |-> existing, created |-> FALSE]
    ELSE [hosts |-> Append(hs, HostRow(gowitness_ip(parsed), gowitness_dns(parsed), "unknown",
                                       0, None)),
          subnets |-> subs, host |-> Len(hs) + 1, created |-> TRUE]

gowitness_find_or_create_host(hs, subs, parsed, existing) ==
    LET ip == gowitness_ip(parsed)
        dns == gowitness_dns(parsed)
    IN  IF existing # 0
        THEN LET e0 == hs[existing]
                 e1 == IF parsed.is_ip /\ Truthy(dns) /\ e0.dns_name # dns
                       THEN [e0 EXCEPT !.dns_name = dns, !.src = GOWITNESS_SOURCE] ELSE e0
                 promote == parsed.is_ip /\ e1.ip = UNRESOLVED_IP
                 sub == IF promote THEN find_or_create_subnet_for_ip(subs, ip)
                        ELSE [subnets |-> subs, id |-> 0]
                 e2 == IF promote
                       THEN [e1 EXCEPT !.ip = ip,
                                       !.subnet_id = IF sub.id # 0 THEN sub.id ELSE @,
                                       !.status = "unknown",
                                       !.promoted = @ + 1]
                       ELSE e1
                 e3 == IF ~parsed.is_ip /\ e2.ip = UNRESOLVED_IP /\ Truthy(parsed.host_name)
                       THEN [e2 EXCEPT !.ip = UNRESOLVED_IP,
                                       !.dns_name = IF ~Truthy(@) THEN parsed.host_name ELSE @]
                       ELSE e2
             IN  [hosts |-> [hs EXCEPT ![existing] = e3], subnets |-> sub.subnets,
                  host |-> existing, created |-> FALSE]
        ELSE LET sub == IF parsed.is_ip THEN find_or_create_subnet_for_ip(subs, ip)
                        ELSE [subnets |-> subs, id |-> 0]
             IN  [hosts |-> Append(hs, HostRow(ip, dns, "unknown", sub.id,
                                               IF Truthy(dns) THEN GOWITNESS_SOURCE ELSE None)),
                  subnets |-> sub.subnets, host |-> Len(hs) + 1, created |-> TRUE]

(***************************************************************************)
(* Port rows and the tools' port reconciliation.  The unique key           *)
(* (host, protocol, number) leaves a lookup at most one row.               *)
(***************************************************************************)
Fields == {"state", "service_name", "service_version", "banner"}

Empty(f, v) == IF f = "banner" THEN v = <<>> ELSE v = None

Writers(w) == [f \in Fields |-> w]

PortRow(host, proto, number, state, name, version, banner, by, wr) ==
    [host_id |-> host, protocol |-> proto, number |-> number, state |-> state,
     service_name |-> name, service_version |-> version, banner |-> banner,
     discovered_by |-> by, wr |-> wr]

PortIds(ps) == 1..Len(ps)

port_lookup(ps, host, proto, number) ==
    LET found == {k \in PortIds(ps) : ps[k].host_id = host /\ ps[k].protocol = proto
                                      /\ ps[k].number = number}
    IN  IF found = {} THEN 0 ELSE CHOOSE k \in found : \A m \in found : k <= m

normalize_protocol(protocol) == IF protocol \in {"tcp", "udp"} THEN protocol ELSE "tcp"

\* Who wrote each field of a row a tool creates: the tool where it stored a
\* value (or a default), nobody where it stored None.
CreatedBy(tool, state, name, version, banner) ==
    [f \in Fields |->
        IF f = "state" THEN tool
        ELSE IF f = "service_name" /\ Truthy(name) THEN tool
        ELSE IF f = "service_version" /\ Truthy(version) THEN tool
        ELSE IF f = "banner" /\ banner # <<>> THEN tool
        ELSE None]

Part(x) == IF Truthy(x) THEN <<x>> ELSE <<>>

build_service_banner(np) ==
    (IF Truthy(np.tunnel) THEN <<"tunnel=", np.tunnel>> ELSE <<>>)
        \o Part(np.product) \o Part(np.version) \o Part(np.extrainfo)

\* Returns the port table, the port's id, whether it was created, and whether
\* the update path committed (which is what counts ports_updated).
nmap_find_or_create_port(ps, host, np, has_metadata) ==
    LET proto == normalize_protocol(np.protocol)
        existing == port_lookup(ps, host, proto, np.port_id)
        banner == build_service_banner(np)
    IN  IF existing # 0
        THEN LET e == ps[existing]
                 is_same_source == e.discovered_by = NMAP_SOURCE
                 setName == (~Truthy(e.service_name) \/ is_same_source) /\ Truthy(np.service_name)
                 setVersion == (~Truthy(e.service_version) \/ is_same_source) /\ Truthy(np.version)
                 setBanner == banner # <<>> /\ (e.banner = <<>> \/ is_same_source)
                 setState == (~Truthy(e.state) \/ is_same_source) /\ Truthy(np.state)
                 setBy == ~Truthy(e.discovered_by)
                 setMeta == is_same_source /\ has_metadata
                 row == [e EXCEPT
                           !.service_name = IF setName THEN np.service_name ELSE @,
                           !.service_version = IF setVersion THEN np.version ELSE @,
                           !.banner = IF setBanner THEN banner ELSE @,
                           !.state = IF setState THEN np.state ELSE @,
                           !.discovered_by = IF setBy THEN NMAP_SOURCE ELSE @,
                           !.wr = [f \in Fields |->
                                     IF (f = "service_name" /\ setName)
                                        \/ (f = "service_version" /\ setVersion)
                                        \/ (f = "banner" /\ setBanner)
                                        \/ (f = "state" /\ setState)
                                     THEN NMAP_SOURCE ELSE e.wr[f]]]
             IN  [ports |-> [ps EXCEPT ![existing] = row], port |-> existing,
                  created |-> FALSE,
                  committed |-> setName \/ setVersion \/ setBanner \/ setState \/ setBy \/ setMeta]
        ELSE LET state == IF Truthy(np.state) THEN np.state ELSE "unknown"
             IN  [ports |-> Append(ps, PortRow(host, proto, np.port_id, state, np.service_name,
                                               np.version, banner, NMAP_SOURCE,
                                               CreatedBy(NMAP_SOURCE, state, np.service_name,
                                                         np.version, banner))),
                  port |-> Len(ps) + 1, created |-> TRUE, committed |-> TRUE]

masscan_find_or_create_port(ps, host, mp) ==
    LET proto == normalize_protocol(mp.protocol)
        state == IF Truthy(mp.state) THEN mp.state ELSE "open"
        existing == port_lookup(ps, host, proto, mp.port_id)
    IN  IF existing # 0
        THEN LET e == ps[existing]
                 is_same_source == e.discovered_by = MASSCAN_SOURCE
                 state_updated == ~Truthy(e.state) \/ is_same_source
                 row == IF state_updated
                        THEN [e EXCEPT !.state = state, !.discovered_by = MASSCAN_SOURCE,
                                       !.wr = [@ EXCEPT !["state"] = MASSCAN_SOURCE]]
                        ELSE e
             IN  [ports |-> [ps EXCEPT ![existing] = row], port |-> existing,
                  created |-> FALSE, committed |-> state_updated]
        ELSE [ports |-> Append(ps, PortRow(host, proto, mp.port_id, state, None, None, <<>>,
                                           MASSCAN_SOURCE,
                                           CreatedBy(MASSCAN_SOURCE, state, None, None, <<>>))),
              port |-> Len(ps) + 1, created |-> TRUE, committed |-> TRUE]

\* A find-or-create that looks the row up under the URL scheme it was given
\* and stores it under tcp.
gowitness_find_or_create_port_by_scheme(ps, host, port_num, protocol) ==
    LET existing == port_lookup(ps, host, protocol, port_num)
        name == IF protocol = "http" THEN "http" ELSE "https"
    IN  IF existing # 0
        THEN [ports |-> ps, port |-> existing, created |-> FALSE, committed |-> FALSE]
        ELSE [ports |-> Append(ps, PortRow(host, "tcp", port_num, "open", name, None, <<>>,
                                           GOWITNESS_SOURCE,
                                           CreatedBy(GOWITNESS_SOURCE, "open", name, None, <<>>))),
              port |-> Len(ps) + 1, created |-> TRUE, committed |-> TRUE]

gowitness_find_or_create_port(ps, host, port_num, protocol) ==
    LET existing == port_lookup(ps, host, "tcp", port_num)
        name == IF protocol = "http" THEN "http" ELSE "https"
    IN  IF existing # 0
        THEN [ports |-> ps, port |-> existing, created |-> FALSE, committed |-> FALSE]
        ELSE [ports |-> Append(ps, PortRow(host, "tcp", port_num, "open", name, None, <<>>,
                                           GOWITNESS_SOURCE,
                                           CreatedBy(GOWITNESS_SOURCE, "open", name, None, <<>>))),
              port |-> Len(ps) + 1, created |-> TRUE, committed |-> TRUE]

(***************************************************************************)
(* Evidence rows.  A caption is a sequence of text tokens; stored tells    *)
(* whether stored_path is set (a binary payload) or null (a text note).    *)
(***************************************************************************)
EvidenceRow(port, source, caption, sha, stored) ==
    [port_id |-> port, source |-> source, caption |-> caption, sha256 |-> sha,
     stored |-> stored]

EvIds(evs) == 1..Len(evs)

\* str.startswith on token sequences.
StartsWith(text, prefix) ==
    Len(prefix) <= Len(text) /\ SubSeq(text, 1, Len(prefix)) = prefix

\* The Python test `part in text` on token sequences.
Contains(text, part) ==
    \E k \in 0..(Len(text) - Len(part)) : SubSeq(text, k + 1, k + Len(part)) = part

RECURSIVE Flatten(_)
Flatten(seqs) == IF seqs = <<>> THEN <<>> ELSE Head(seqs) \o Flatten(Tail(seqs))

\* One line of script output as the regular expression _HTTP_RESPONSE_RE and
\* _parse_http_headers read it: the status code of a status line, the lowered
\* name and the value of a `name: value` line.
ParseLine(line) ==
    CASE line = "HTTP/1.1 200 OK" -> [code |-> "200", name |-> None, val |-> None]
      [] line = "HTTP/1.1 404 Not Found" -> [code |-> "404", name |-> None, val |-> None]
      [] line = "Server: nginx" -> [code |-> None, name |-> "server", val |-> "nginx"]
      [] line = "X-Frame-Options: DENY" ->
            [code |-> None, name |-> "x-frame-options", val |-> "DENY"]
      [] line = "X-Frame-Options: SAMEORIGIN" ->
            [code |-> None, name |-> "x-frame-options", val |-> "SAMEORIGIN"]
      [] line = "Strict-Transport-Security: max-age=0" ->
            [code |-> None, name |-> "strict-transport-security", val |-> "max-age=0"]
      [] OTHER -> [code |-> None, name |-> None, val |-> None]

SECURITY_HEADERS ==
    <<"x-frame-options", "content-security-policy", "x-content-type-options",
      "strict-transport-security", "x-xss-protection">>

\* scripts_by_id.get(id): the last script of that id, as the dict keeps it.
script_output(scripts, id) ==
    LET at == {k \in 1..Len(scripts) : scripts[k].id = id}
    IN  IF at = {} THEN <<>>
        ELSE scripts[CHOOSE k \in at : \A m \in at : m <= k].output

\* The first status line's code, or None.
response_code_of(output) ==
    LET at == {k \in 1..Len(output) : ParseLine(output[k]).code # None}
    IN  IF at = {} THEN None
        ELSE ParseLine(output[CHOOSE k \in at : \A m \in at : k <= m]).code

\* headers_parsed[name], or None: the last line of that name.
header_value(output, name) ==
    LET at == {k \in 1..Len(output) : ParseLine(output[k]).name = name}
    IN  IF at = {} THEN None
        ELSE ParseLine(output[CHOOSE k \in at : \A m \in at : m <= k]).val

\* A dedup test that looks among the rows with a stored payload.
nmap_evidence_caption_exists_stored(evs, port, prefix) ==
    \E k \in EvIds(evs) :
        /\ evs[k].port_id = port
        /\ evs[k].source = NMAP_SOURCE
        /\ evs[k].stored
        /\ StartsWith(evs[k].caption, prefix)

nmap_evidence_caption_exists(evs, port, prefix) ==
    \E k \in EvIds(evs) :
        /\ evs[k].port_id = port
        /\ evs[k].source = NMAP_SOURCE
        /\ ~evs[k].stored
        /\ evs[k].caption # <<>>
        /\ StartsWith(evs[k].caption, prefix)

nmap_add_evidence(evs, port, caption) ==
    Append(evs, EvidenceRow(port, NMAP_SOURCE, caption, None, FALSE))

\* The candidate notes of one port in the order _add_port_evidence tries them,
\* each with the caption prefix its dedup test looks for; absent ones left out.
nmap_evidence_candidates(np) ==
    LET banner == build_service_banner(np)
        server_header == script_output(np.scripts, "http-server-header")
        server_val == IF server_header # <<>> THEN server_header ELSE banner
        http_headers == script_output(np.scripts, "http-headers")
        code == response_code_of(http_headers)
        ssl_cert == script_output(np.scripts, "ssl-cert")
        raw_parts == Flatten([k \in 1..Len(np.scripts) |->
                        IF np.scripts[k].output # <<>>
                        THEN <<np.scripts[k].id>> \o np.scripts[k].output ELSE <<>>])
        headerNote(k) ==
            LET hname == SECURITY_HEADERS[k]
                val == header_value(http_headers, hname)
            IN  IF Truthy(val)
                THEN <<[prefix |-> <<hname, ":">>, caption |-> <<hname, ":", val, "[nmap]">>]>>
                ELSE <<>>
    IN  (IF server_val # <<>>
         THEN <<[prefix |-> <<"Server:">>,
                 caption |-> <<"Server:">> \o server_val \o <<"[nmap]">>]>>
         ELSE <<>>)
        \o (IF Truthy(code)
            THEN <<[prefix |-> <<"Response code:">>,
                    caption |-> <<"Response code:", code, "[nmap]">>]>>
            ELSE <<>>)
        \o Flatten([k \in 1..Len(SECURITY_HEADERS) |-> headerNote(k)])
        \o (IF ssl_cert # <<>>
            THEN <<[prefix |-> <<"TLS">>,
                    caption |-> <<"TLS", "/ Certificate", "[nmap]">> \o ssl_cert]>>
            ELSE <<>>)
        \o (IF raw_parts # <<>>
            THEN <<[prefix |-> <<"Raw banner">>,
                    caption |-> <<"Raw banner", "[nmap]">> \o raw_parts]>>
            ELSE <<>>)

\* Returns the evidence table and the number of rows added.
RECURSIVE nmap_add_notes(_, _, _)
nmap_add_notes(st, port, notes) ==
    IF notes = <<>> THEN st
    ELSE LET n == Head(notes)
             next == IF nmap_evidence_caption_exists(st.evidence, port, n.prefix) THEN st
                     ELSE [evidence |-> nmap_add_evidence(st.evidence, port, n.caption),
                           added |-> st.added + 1]
         IN  nmap_add_notes(next, port, Tail(notes))

nmap_add_port_evidence(evs, port, np) ==
    nmap_add_notes([evidence |-> evs, added |-> 0], port, nmap_evidence_candidates(np))

(***************************************************************************)
(* gowitness: evidence dedup.                                              *)
(***************************************************************************)
\* A duplicate test on the bytes alone, whatever the row's source.
screenshot_evidence_exists_any_source(evs, port, sha) ==
    IF ~Truthy(sha) THEN FALSE
    ELSE \E k \in EvIds(evs) : evs[k].port_id = port /\ evs[k].sha256 = sha

screenshot_evidence_exists(evs, port, sha) ==
    IF ~Truthy(sha) THEN FALSE
    ELSE \E k \in EvIds(evs) :
            /\ evs[k].port_id = port
            /\ evs[k].source = GOWITNESS_SOURCE
            /\ evs[k].sha256 = sha

metadata_prefix(ev_type) ==
    CASE ev_type = "response_code" -> <<"Response code:">>
      [] ev_type = "server" -> <<"Server:">>
      [] ev_type = "technologies" -> <<"Technologies:">>
      [] ev_type = "title" -> <<"Page title:">>
      [] ev_type = "redirect_chain" -> <<"Redirect chain:">>
      [] OTHER -> <<>>

metadata_evidence_exists(evs, port, ev_type, value) ==
    LET search == metadata_prefix(ev_type) \o value
    IN  \E k \in EvIds(evs) :
            /\ evs[k].port_id = port
            /\ evs[k].source = GOWITNESS_SOURCE
            /\ ~evs[k].stored
            /\ evs[k].caption # <<>>
            /\ Contains(evs[k].caption, search)

\* An _add_evidence that rewrites the tool's latest row of the port in place.
gowitness_add_evidence_in_place(evs, port, caption, sha, stored) ==
    LET mine == {k \in EvIds(evs) : evs[k].port_id = port /\ evs[k].source = GOWITNESS_SOURCE}
    IN  IF mine = {} THEN Append(evs, EvidenceRow(port, GOWITNESS_SOURCE, caption, sha, stored))
        ELSE [evs EXCEPT ![CHOOSE k \in mine : \A m \in mine : m <= k] =
                             EvidenceRow(port, GOWITNESS_SOURCE, caption, sha, stored)]

gowitness_add_evidence(evs, port, caption, sha, stored) ==
    Append(evs, EvidenceRow(port, GOWITNESS_SOURCE, caption, sha, stored))

\* The metadata notes of one record in the order run_gowitness_import tries
\* them; a value is a token sequence, <<>> when the record has none.
gowitness_metadata(rec) ==
    LET note(ev_type, value) ==
            IF value # <<>> THEN <<[ev_type |-> ev_type, value |-> value]>> ELSE <<>>
    IN  note("response_code", rec.response_code) \o note("server", rec.server_header)
        \o note("technologies", rec.technologies) \o note("title", rec.title)
        \o note("redirect_chain", rec.redirect_chain)

RECURSIVE gowitness_add_metadata(_, _, _)
gowitness_add_metadata(st, port, notes) ==
    IF notes = <<>> THEN st
    ELSE LET n == Head(notes)
             caption == metadata_prefix(n.ev_type) \o n.value \o <<"[gowitness]">>
             next == IF metadata_evidence_exists(st.evidence, port, n.ev_type, n.value) THEN st
                     ELSE [evidence |-> gowitness_add_evidence(st.evidence, port, caption,
                                                               None, FALSE),
                           added |-> st.added + 1]
         IN  gowitness_add_metadata(next, port, Tail(notes))

(***************************************************************************)
(* The import summaries and the per-record body of each orchestrator's     *)
(* loop.  A store is [hosts, subnets, ports, evidence, summary].           *)
(***************************************************************************)
ZeroSummary ==
    [hosts_created |-> 0, hosts_updated |-> 0, ports_created |-> 0, ports_updated |-> 0,
     evidence_created |-> 0, screenshots_imported |-> 0, metadata_records_imported |-> 0,
     skipped |-> 0, errors |-> 0]

Bump(sm, field, n) == [sm EXCEPT ![field] = @ + n]

RECURSIVE nmap_import_ports(_, _, _, _)
nmap_import_ports(st, host, plist, has_metadata) ==
    IF plist = <<>> THEN st
    ELSE LET np == Head(plist)
             p == nmap_find_or_create_port(st.ports, host, np, has_metadata)
             ev == nmap_add_port_evidence(st.evidence, p.port, np)
             sm1 == IF p.created THEN Bump(st.summary, "ports_created", 1)
                    ELSE IF p.committed THEN Bump(st.summary, "ports_updated", 1)
                    ELSE st.summary
             next == [st EXCEPT !.ports = p.ports, !.evidence = ev.evidence,
                                !.summary = Bump(sm1, "evidence_created", ev.added)]
         IN  nmap_import_ports(next, host, Tail(plist), has_metadata)

\* A loop body that counts every reconciled host as created.
nmap_import_host_all_created(st, nh, existing, has_metadata) ==
    LET h == nmap_find_or_create_host(st.hosts, st.subnets, nh, existing)
        sm == Bump(st.summary, "hosts_created", 1)
    IN  nmap_import_ports([st EXCEPT !.hosts = h.hosts, !.subnets = h.subnets, !.summary = sm],
                          h.host, nh.ports, has_metadata)

nmap_import_host(st, nh, existing, has_metadata) ==
    LET h == nmap_find_or_create_host(st.hosts, st.subnets, nh, existing)
        sm == Bump(st.summary, IF h.created THEN "hosts_created" ELSE "hosts_updated", 1)
    IN  nmap_import_ports([st EXCEPT !.hosts = h.hosts, !.subnets = h.subnets, !.summary = sm],
                          h.host, nh.ports, has_metadata)

\* Characters of a name; LongName stands for a name of 300 characters.
LongName == "long-name"

length(text) == IF text = LongName THEN 300 ELSE 1

\* hosts.dns_name is a String(255): the INSERT of a longer name fails in the
\* flush of db.commit().
host_insert_raises(nh) == Truthy(nh.hostname) /\ length(nh.hostname) > 255

\* The body of the loop of run_nmap_import for one host element.  A query on
\* a session whose transaction was rolled back by a failed flush raises
\* until rollback() is called, which no handler does; the except clause
\* appends one error string.  A host whose INSERT fails has had its subnet
\* committed by the resolver.
run_nmap_import_host(st, nh, existing, has_metadata) ==
    IF st.session = "inactive" THEN [st EXCEPT !.summary = Bump(@, "errors", 1)]
    ELSE IF existing = 0 /\ host_insert_raises(nh)
    THEN LET sub == IF ~nh.is_unresolved /\ nh.ip # UNRESOLVED_IP
                    THEN find_or_create_subnet_for_ip(st.subnets, nh.ip)
                    ELSE [subnets |-> st.subnets, id |-> 0]
         IN  [st EXCEPT !.subnets = sub.subnets, !.summary = Bump(@, "errors", 1),
                        !.session = "inactive"]
    ELSE nmap_import_host(st, nh, existing, has_metadata)

RECURSIVE masscan_import_ports(_, _, _)
masscan_import_ports(st, host, plist) ==
    IF plist = <<>> THEN st
    ELSE LET p == masscan_find_or_create_port(st.ports, host, Head(plist))
             sm == Bump(st.summary, IF p.created THEN "ports_created" ELSE "ports_updated", 1)
         IN  masscan_import_ports([st EXCEPT !.ports = p.ports, !.summary = sm],
                                  host, Tail(plist))

masscan_import_host(st, mh, existing) ==
    LET h == masscan_find_or_create_host(st.hosts, st.subnets, mh, existing)
        sm == Bump(st.summary, IF h.created THEN "hosts_created" ELSE "hosts_updated", 1)
    IN  masscan_import_ports([st EXCEPT !.hosts = h.hosts, !.subnets = h.subnets, !.summary = sm],
                             h.host, mh.ports)

text_import_host(st, th, existing) ==
    LET h == text_find_or_create_host(st.hosts, st.subnets, th, existing)
    IN  [st EXCEPT !.hosts = h.hosts, !.subnets = h.subnets,
                   !.summary = Bump(@, IF h.created THEN "hosts_created" ELSE "hosts_updated", 1)]

whois_import_host(st, ip, existing) ==
    LET h == whois_find_or_create_host(st.hosts, st.subnets, ip, existing)
    IN  [st EXCEPT !.hosts = h.hosts, !.subnets = h.subnets,
                   !.summary = Bump(@, IF h.created THEN "hosts_created" ELSE "hosts_updated", 1)]

gowitness_import_record(st, rec, existing) ==
    LET h == gowitness_find_or_create_host(st.hosts, st.subnets, rec.parsed, existing)
        p == gowitness_find_or_create_port(st.ports, h.host, rec.parsed.port,
                                           rec.parsed.protocol)
        sm1 == Bump(Bump(st.summary, "hosts_created", IF h.created THEN 1 ELSE 0),
                    "ports_created", IF p.created THEN 1 ELSE 0)
        has_shot == Truthy(rec.screenshot)
        dup == screenshot_evidence_exists(st.evidence, p.port, rec.screenshot)
        title == IF rec.title # <<>> THEN rec.title ELSE <<rec.url>>
        ev1 == IF has_shot /\ ~dup
               THEN gowitness_add_evidence(st.evidence, p.port,
                        <<"Screenshot:">> \o title \o <<"[gowitness]">>, rec.screenshot, TRUE)
               ELSE st.evidence
        hs1 == IF has_shot /\ ~dup THEN [h.hosts EXCEPT ![h.host].status = "online"]
               ELSE h.hosts
        sm2 == IF ~has_shot THEN sm1
               ELSE IF dup THEN Bump(sm1, "skipped", 1)
               ELSE Bump(sm1, "screenshots_imported", 1)
        md == gowitness_add_metadata([evidence |-> ev1, added |-> 0], p.port,
                                     gowitness_metadata(rec))
    IN  [hosts |-> hs1, subnets |-> h.subnets, ports |-> p.ports, evidence |-> md.evidence,
         summary |-> Bump(sm2, "metadata_records_imported", md.added)]

(***************************************************************************)
(* Human API operations.                                                   *)
(***************************************************************************)
\* POST /hosts
create_host(hs, subs, body) ==
    LET sub == IF body.ip # UNRESOLVED_IP THEN find_or_create_subnet_for_ip(subs, body.ip)
               ELSE [subnets |-> subs, id |-> 0]
        status == IF Truthy(body.status) THEN body.status ELSE "unknown"
    IN  [hosts |-> Append(hs, HostRow(body.ip, body.dns_name, status, sub.id,
                                      IF Truthy(body.dns_name) THEN HUMAN ELSE None)),
         subnets |-> sub.subnets]

\* POST /ports; answers 409 and stores nothing when the key already exists.
create_port(ps, body) ==
    IF port_lookup(ps, body.host_id, body.protocol, body.number) # 0 THEN ps
    ELSE LET state == IF Truthy(body.state) THEN body.state ELSE "unknown"
         IN  Append(ps, PortRow(body.host_id, body.protocol, body.number, state,
                                body.service_name, body.service_version, body.banner,
                                IF Truthy(body.discovered_by) THEN body.discovered_by
                                ELSE "manual",
                                [CreatedBy(HUMAN, state, body.service_name,
                                           body.service_version, body.banner)
                                   EXCEPT !["state"] =
                                              IF Truthy(body.state) THEN HUMAN ELSE None]))

\* PATCH /ports/{id} by the holder of the record's lock: every field the body
\* names is stored as given, None included.
update_port(ps, id, field, value) ==
    IF field = "discovered_by" THEN [ps EXCEPT ![id].discovered_by = value]
    ELSE [ps EXCEPT ![id][field] = value, ![id].wr[field] = HUMAN]

\* POST /ports/{id}/attachments
upload_port_attachment(evs, port) == Append(evs, EvidenceRow(port, None, <<>>, None, TRUE))

(***************************************************************************)
(* The state machine.  run is the import in progress: its tool, the number *)
(* of parsed records still to reconcile, whether the file carries scan     *)
(* metadata, and the addresses already taken from a file whose parser      *)
(* keeps one record per address.  summary is that import's summary.        *)
(* Imports of one project run one at a time and human requests are served  *)
(* between imports.  replay is used by SpecIdem only.                      *)
(***************************************************************************)
Idle == [tool |-> "idle", left |-> 0, meta |-> FALSE, seen |-> {}, session |-> "active",
         bad |-> 0, size |-> 0]

Store == [hosts |-> hosts, subnets |-> subnets, ports |-> ports, evidence |-> evidence,
          summary |-> summary, session |-> run.session]

Fits(st) ==
    /\ Len(st.hosts) <= MaxHosts
    /\ Len(st.ports) <= MaxPorts
    /\ Len(st.evidence) <= MaxEvidence

Commit(st) ==
    /\ Fits(st)
    /\ hosts' = st.hosts
    /\ subnets' = st.subnets
    /\ ports' = st.ports
    /\ evidence' = st.evidence
    /\ summary' = st.summary

Importing(tool) == run.tool = tool /\ run.left > 0

Consumed == [run EXCEPT !.left = @ - 1]

\* No upload request is being served.
NoUpload == [files |-> <<>>, results |-> <<>>, formats |-> <<>>, status |-> "none"]

\* No concurrent request is being served.  A worker is one request of its
\* own process: its position in run_nmap_import, the host record of its file,
\* the rows its lookups returned, its session and its summary.
Workers == {1, 2}

IdleWorker == [pc |-> "idle", nh |-> None, existing |-> 0, host |-> 0, port |-> 0,
               session |-> "active", conflicts |-> 0, summary |-> ZeroSummary]

NoWorkers == [w \in Workers |-> IdleWorker]

\* The audit events of the request being served, oldest first.
NoAudit == <<>>

\* The locks table is empty, and no request has been answered: answer is the
\* response to the request just served, clock the time of _now().
NoLocks == <<>>

NoResponse == [op |-> "none", user |-> 0, type |-> "none", id |-> 0, code |-> 0]

NoReplay == [file |-> <<>>, meta |-> FALSE, pass |-> 0, hosts |-> 0, ports |-> 0,
             evidence |-> 0]

InitEmpty ==
    /\ hosts = <<>>
    /\ subnets = <<>>
    /\ ports = <<>>
    /\ evidence = <<>>
    /\ run = Idle
    /\ summary = ZeroSummary
    /\ replay = NoReplay
    /\ upload = NoUpload
    /\ workers = NoWorkers
    /\ audit = NoAudit
    /\ locks = NoLocks
    /\ clock = 0
    /\ answer = NoResponse

\* The orchestrator's entry, on a file of up to maxlen records: the project
\* exists, the request has a fresh session, the started event is logged.
StartImportUpTo(tools, metas, maxlen) ==
    /\ run = Idle
    /\ \E t \in tools, n \in 1..maxlen, m \in metas :
          run' = [Idle EXCEPT !.tool = t, !.left = n, !.meta = m]
    /\ summary' = ZeroSummary
    /\ UNCHANGED <<hosts, subnets, ports, evidence, replay, upload, workers, audit, locks, clock, answer>>

StartImport(tools, metas) == StartImportUpTo(tools, metas, MaxFileLen)

\* One pass of the loop of run_nmap_import, its try and except included.
NmapRecord(recs) ==
    /\ Importing(NMAP_SOURCE)
    /\ \E nh \in recs : \E existing \in nmap_host_lookup(hosts, nh) :
          LET r == run_nmap_import_host(Store, nh, existing, run.meta)
          IN  /\ Commit(r)
              /\ run' = [Consumed EXCEPT !.session = r.session,
                                         !.bad = @ + (IF host_insert_raises(nh) THEN 1 ELSE 0)]
    /\ UNCHANGED <<replay, upload, workers, audit, locks, clock, answer>>

\* One pass of the loop of run_masscan_import; the parser groups by address.
MasscanRecord(recs) ==
    /\ Importing(MASSCAN_SOURCE)
    /\ \E mh \in recs : \E existing \in masscan_host_lookup(hosts, mh) :
          /\ mh.ip \notin run.seen
          /\ Commit(masscan_import_host(Store, mh, existing))
          /\ run' = [Consumed EXCEPT !.seen = @ \cup {mh.ip}]
    /\ UNCHANGED <<replay, upload, workers, audit, locks, clock, answer>>

\* One pass of the loop of run_text_import; the parser keeps the first line
\* of an address.
TextRecord(recs) ==
    /\ Importing(TEXT_IMPORT_SOURCE)
    /\ \E th \in recs : \E existing \in text_host_lookup(hosts, th) :
          /\ th.ip \notin run.seen
          /\ Commit(text_import_host(Store, th, existing))
          /\ run' = [Consumed EXCEPT !.seen = @ \cup {th.ip}]
    /\ UNCHANGED <<replay, upload, workers, audit, locks, clock, answer>>

\* One pass of the loop of run_whois_import.
WhoisRecord(ips) ==
    /\ Importing(WHOIS_SOURCE)
    /\ \E ip \in ips : \E existing \in whois_host_lookup(hosts, ip) :
          /\ ip \notin run.seen
          /\ Commit(whois_import_host(Store, ip, existing))
          /\ run' = [Consumed EXCEPT !.seen = @ \cup {ip}]
    /\ UNCHANGED <<replay, upload, workers, audit, locks, clock, answer>>

\* One pass of the loop of run_gowitness_import.
GowitnessRecord(recs) ==
    /\ Importing(GOWITNESS_SOURCE)
    /\ \E rec \in recs : \E existing \in gowitness_host_lookup(hosts, rec.parsed) :
          Commit(gowitness_import_record(Store, rec, existing))
    /\ run' = Consumed
    /\ UNCHANGED <<replay, upload, workers, audit, locks, clock, answer>>

\* The loop is over: the completed event is logged and committed, and the
\* summary returned.
FinishImport ==
    /\ run.tool # "idle"
    /\ run.left = 0
    /\ run.session = "active"
    /\ run' = Idle
    /\ summary' = ZeroSummary
    /\ UNCHANGED <<hosts, subnets, ports, evidence, replay, upload, workers, audit, locks, clock, answer>>

\* The loop is over on a session whose transaction a failed flush has rolled
\* back: the commit of the completed event raises out of the orchestrator,
\* and the request ends without a summary.
FinishRaises ==
    /\ run.tool # "idle"
    /\ run.left = 0
    /\ run.session = "inactive"
    /\ run' = Idle
    /\ summary' = ZeroSummary
    /\ UNCHANGED <<hosts, subnets, ports, evidence, replay, upload, workers, audit, locks, clock, answer>>

HumanCreateHost(bodies) ==
    /\ run = Idle
    /\ \E body \in bodies :
          LET r == create_host(hosts, subnets, body)
          IN  /\ Len(r.hosts) <= MaxHosts
              /\ hosts' = r.hosts
              /\ subnets' = r.subnets
    /\ UNCHANGED <<ports, evidence, run, summary, replay, upload, workers, audit, locks, clock, answer>>

HumanCreatePort(bodies) ==
    /\ run = Idle
    /\ \E body \in bodies :
          /\ body.host_id \in HostIds(hosts)
          /\ port_lookup(ports, body.host_id, body.protocol, body.number) = 0
          /\ Len(ports) < MaxPorts
          /\ ports' = create_port(ports, body)
    /\ UNCHANGED <<hosts, subnets, evidence, run, summary, replay, upload, workers, audit, locks, clock, answer>>

HumanUpdatePort(patches) ==
    /\ run = Idle
    /\ \E id \in PortIds(ports), patch \in patches :
          /\ ports[id][patch.field] # patch.value
          /\ ports' = update_port(ports, id, patch.field, patch.value)
    /\ UNCHANGED <<hosts, subnets, evidence, run, summary, replay, upload, workers, audit, locks, clock, answer>>

HumanUploadAttachment ==
    /\ run = Idle
    /\ Len(evidence) < MaxEvidence
    /\ \E id \in PortIds(ports) : evidence' = upload_port_attachment(evidence, id)
    /\ UNCHANGED <<hosts, subnets, ports, run, summary, replay, upload, workers, audit, locks, clock, answer>>

(***************************************************************************)
(* Inputs.                                                                 *)
(***************************************************************************)
IpA == IPv4(10, 0, 0, 5)
IpB == IPv6(8193, 1)
Ips == {IpA, IpB}
Names == {"a", "b"}

NmapHostRec(ip, name, status, plist) ==
    [ip |-> ip, hostname |-> name, is_unresolved |-> ip = UNRESOLVED_IP, status |-> status,
     ports |-> plist]

\* Parsed nmap hosts without ports: every address with and without a hostname,
\* up and down, and the hostname-only hosts.
NmapHostsOnly ==
    {NmapHostRec(ip, n, s, <<>>) : ip \in Ips, n \in Names \cup {None}, s \in {"up", "down"}}
    \cup {NmapHostRec(UNRESOLVED_IP, n, "up", <<>>) : n \in Names}

TextHosts == [ip : Ips, hostname : Names \cup {None}]

MasscanPortRec(number, state) ==
    [port_id |-> number, protocol |-> "tcp", state |-> state]

MasscanHosts == {[ip |-> ip, ports |-> <<MasscanPortRec(80, "open")>>] : ip \in {IpA}}

ParsedIp(ip, number, scheme) ==
    [is_ip |-> TRUE, host_ip |-> ip, host_name |-> None, hostname |-> None,
     port |-> number, protocol |-> scheme]

ParsedName(name, number, scheme) ==
    [is_ip |-> FALSE, host_ip |-> UNRESOLVED_IP, host_name |-> name, hostname |-> name,
     port |-> number, protocol |-> scheme]

GowitnessRec(parsed, shot, code, server) ==
    [parsed |-> parsed, screenshot |-> shot, url |-> "url", title |-> <<>>,
     response_code |-> code, server_header |-> server, technologies |-> <<>>,
     redirect_chain |-> <<>>]

GowitnessHosts ==
    {GowitnessRec(p, shot, <<>>, <<>>) :
        p \in {ParsedIp(IpA, 80, "http")} \cup {ParsedName(n, 80, "http") : n \in Names},
        shot \in {"sha-1"}}

\* Hosts a human enters: an address with or without a name, or a name still
\* to be resolved.
HostBodies ==
    [ip : Ips, dns_name : Names \cup {None}, status : {None, "online"}]
    \cup [ip : {UNRESOLVED_IP}, dns_name : Names, status : {None}]

(***************************************************************************)
(* SpecHost: host identity and status under every importer.                *)
(***************************************************************************)
NextHost ==
    \/ StartImport({NMAP_SOURCE, MASSCAN_SOURCE, TEXT_IMPORT_SOURCE, WHOIS_SOURCE,
                    GOWITNESS_SOURCE}, {TRUE})
    \/ NmapRecord(NmapHostsOnly)
    \/ MasscanRecord(MasscanHosts)
    \/ TextRecord(TextHosts)
    \/ WhoisRecord({IpB})
    \/ GowitnessRecord(GowitnessHosts)
    \/ FinishImport
    \/ HumanCreateHost(HostBodies)

SpecHost == InitEmpty /\ [][NextHost]_vars

(***************************************************************************)
(* SpecNmapHost: the nmap host reconciler over hosts that nmap imports and *)
(* users create.                                                           *)
(***************************************************************************)
NextNmapHost ==
    \/ StartImport({NMAP_SOURCE}, {TRUE})
    \/ NmapRecord(NmapHostsOnly)
    \/ FinishImport
    \/ HumanCreateHost(HostBodies)

SpecNmapHost == InitEmpty /\ [][NextNmapHost]_vars

(***************************************************************************)
(* SpecIp: the address of the rows of one hostname under the five          *)
(* importers.                                                              *)
(***************************************************************************)
IpNmapHosts ==
    {NmapHostRec(ip, "a", "up", <<>>) : ip \in Ips \cup {UNRESOLVED_IP}}
    \cup {NmapHostRec(IpA, None, "up", <<>>)}

IpTextHosts == {[ip |-> IpA, hostname |-> "a"], [ip |-> IpB, hostname |-> None]}

IpGowitness ==
    {GowitnessRec(p, "sha-1", <<>>, <<>>) :
        p \in {ParsedIp(IpA, 80, "http"), ParsedName("a", 80, "http")}}

NextIp ==
    \/ StartImport({NMAP_SOURCE, MASSCAN_SOURCE, TEXT_IMPORT_SOURCE, WHOIS_SOURCE,
                    GOWITNESS_SOURCE}, {TRUE})
    \/ NmapRecord(IpNmapHosts)
    \/ MasscanRecord(MasscanHosts)
    \/ TextRecord(IpTextHosts)
    \/ WhoisRecord({IpB})
    \/ GowitnessRecord(IpGowitness)
    \/ FinishImport

SpecIp == InitEmpty /\ [][NextIp]_vars

\* A step of an import run that reconciles one record.
ImportStep == run.tool # "idle" /\ run.left > 0

\* An import run has consumed its last record and not yet returned.
ImportDone(tool) == run.tool = tool /\ run.left = 0

IpNeverReverts ==
    [][ImportStep =>
          \A i \in HostIds(hosts) :
              /\ IsRealIp(hosts[i].ip) => hosts'[i].ip = hosts[i].ip
              /\ hosts'[i].promoted <= 1]_vars

\* C6 witness: a gowitness record has just been reconciled onto a row that an
\* earlier import promoted, and the row still holds its address.
IpNeverRevertsSeen ==
    /\ ImportDone(GOWITNESS_SOURCE)
    /\ Len(hosts) = 1
    /\ hosts[1].promoted = 1
    /\ hosts[1].dns_name = "a"
    /\ IsRealIp(hosts[1].ip)

\* C7 as stated: no import step takes a row's status from online to anything
\* else, or from online or offline to unknown or unresolved.
StatusNeverDowngraded ==
    [][ImportStep =>
          \A i \in HostIds(hosts) :
              /\ hosts[i].status = "online" => hosts'[i].status = "online"
              /\ hosts[i].status = "offline"
                    => hosts'[i].status \notin {"unknown", "unresolved"}]_vars

\* C8 as stated: no import step changes a non-empty dns_name that a human
\* entered.
HumanDnsNameKept ==
    [][ImportStep =>
          \A i \in HostIds(hosts) :
              (hosts[i].src = HUMAN /\ Truthy(hosts[i].dns_name))
              => hosts'[i].dns_name = hosts[i].dns_name]_vars

(***************************************************************************)
(* SpecPort: the merged columns of one port key under nmap, masscan,       *)
(* gowitness and the human API.                                            *)
(***************************************************************************)
NmapPortRec(number, state, name, version, scripts) ==
    [port_id |-> number, protocol |-> "tcp", state |-> state, service_name |-> name,
     product |-> None, version |-> version, extrainfo |-> None, tunnel |-> None,
     scripts |-> scripts]

NmapPortsPlain ==
    {NmapPortRec(80, st, nm, v, <<>>) :
        st \in {"open", "closed"}, nm \in {None, "http"}, v \in {None, "1.0"}}

NmapPortHosts == {NmapHostRec(IpA, None, "up", <<np>>) : np \in NmapPortsPlain}

GowitnessPlain == {GowitnessRec(ParsedIp(IpA, 80, "http"), None, <<>>, <<>>)}

PortHostBodies == {[ip |-> IpA, dns_name |-> None, status |-> None]}

\* Ports a human enters on the first host; discovered_by is left out of the
\* body, so the route stores 'manual'.
PortBodies ==
    [host_id : {1}, protocol : {"tcp"}, number : {80}, state : {None, "filtered"},
     service_name : {None, "ssh"}, service_version : {None}, banner : {<<>>},
     discovered_by : {None}]

\* PATCH bodies: clear the provenance tag, clear the state.
PortPatches ==
    {[field |-> "discovered_by", value |-> None], [field |-> "state", value |-> None]}

NextPort ==
    \/ StartImport({NMAP_SOURCE, MASSCAN_SOURCE, GOWITNESS_SOURCE}, BOOLEAN)
    \/ NmapRecord(NmapPortHosts)
    \/ MasscanRecord(MasscanHosts)
    \/ GowitnessRecord(GowitnessPlain)
    \/ FinishImport
    \/ HumanCreateHost(PortHostBodies)
    \/ HumanCreatePort(PortBodies)
    \/ HumanUpdatePort(PortPatches)

SpecPort == InitEmpty /\ [][NextPort]_vars

\* C1 as stated: no import step changes a non-empty service_name,
\* service_version, banner or state that a human set on a port.
HumanPortFieldsKept ==
    [][ImportStep =>
          \A p \in PortIds(ports), f \in Fields :
              (ports[p].wr[f] = HUMAN /\ ~Empty(f, ports[p][f]))
              => ports'[p][f] = ports[p][f]]_vars

SameSourceOrEmpty ==
    [][ImportStep =>
          \A p \in PortIds(ports), f \in Fields :
              ports'[p][f] # ports[p][f]
              => Empty(f, ports[p][f]) \/ ports[p].discovered_by = run.tool]_vars

(***************************************************************************)
(* SpecEvid: the evidence of one port under nmap, gowitness and human      *)
(* attachments.                                                            *)
(***************************************************************************)
Script(id, output) == [id |-> id, output |-> output]

NmapPortsNoted ==
    {NmapPortRec(80, "open", "http", v, <<>>) : v \in {"1.0", "2.0"}}
    \cup {NmapPortRec(80, "open", "http", None, <<sc>>) :
            sc \in {Script("http-server-header", <<"nginx">>),
                    Script("http-headers", <<"HTTP/1.1 200 OK", "X-Frame-Options: DENY">>)}}

NmapNotedHosts == {NmapHostRec(IpA, None, "up", <<np>>) : np \in NmapPortsNoted}

GowitnessNoted ==
    {GowitnessRec(ParsedIp(IpA, 80, "http"), shot, <<>>, server) :
        shot \in {None, "sha-1"}, server \in {<<>>, <<"nginx">>, <<"nginx", "/1.1">>}}

NextEvid ==
    \/ StartImport({NMAP_SOURCE, GOWITNESS_SOURCE}, {TRUE})
    \/ NmapRecord(NmapNotedHosts)
    \/ GowitnessRecord(GowitnessNoted)
    \/ FinishImport
    \/ HumanUploadAttachment

SpecEvid == InitEmpty /\ [][NextEvid]_vars

\* C9: evidence is append-only under import.  Every row present before an
\* import step, a human's included, is present with the same field values
\* after it; the step only adds rows behind them.
EvidenceAppendOnly ==
    [][ImportStep =>
          /\ Len(evidence') >= Len(evidence)
          /\ \A k \in EvIds(evidence) : evidence'[k] = evidence[k]]_vars

\* C9 witness: an nmap run has just added rows behind a human's attachment
\* and a gowitness note.
EvidenceAppendOnlySeen ==
    /\ ImportDone(NMAP_SOURCE)
    /\ summary.evidence_created >= 1
    /\ Len(evidence) = summary.evidence_created + 2
    /\ \E k \in 1..2 : evidence[k].source = None /\ evidence[k].stored
    /\ \E k \in 1..2 : evidence[k].source = GOWITNESS_SOURCE /\ ~evidence[k].stored
    /\ evidence[3].source = NMAP_SOURCE

\* The caption prefixes of the text notes.
Prefixes ==
    {<<"Server:">>, <<"Response code:">>, <<"Page title:">>, <<"Technologies:">>,
     <<"Redirect chain:">>, <<"TLS">>, <<"Raw banner">>}
    \cup {<<SECURITY_HEADERS[k], ":">> : k \in 1..Len(SECURITY_HEADERS)}

\* The text-only rows a tool holds on a port.
TextRows(tool, p) ==
    {k \in EvIds(evidence) :
        evidence[k].port_id = p /\ evidence[k].source = tool /\ ~evidence[k].stored}

OnePerPrefix(tool) ==
    \A p \in PortIds(ports), prefix \in Prefixes :
        Cardinality({k \in TextRows(tool, p) : StartsWith(evidence[k].caption, prefix)}) <= 1

\* C10 as stated: a port holds at most one text-only row per caption prefix
\* from nmap and at most one from gowitness.
TextDedupByPrefix == OnePerPrefix(NMAP_SOURCE) /\ OnePerPrefix(GOWITNESS_SOURCE)

\* C10 amended: the key is (port, tool, caption prefix) for nmap, and (port,
\* tool, caption prefix and value) for gowitness.  A port holds at most one
\* text-only nmap row per prefix, and an nmap port record adds no row for a
\* prefix the port already has and changes no row; a port holds at most one
\* text-only gowitness row per caption, and a gowitness record whose server
\* value occurs in no gowitness note of the port adds a Server row, other
\* Server rows or not.
TextDedupKeys ==
    /\ OnePerPrefix(NMAP_SOURCE)
    /\ \A p \in PortIds(ports) : \A j, k \in TextRows(GOWITNESS_SOURCE, p) :
          evidence[j].caption = evidence[k].caption => j = k
    /\ \A p \in PortIds(ports), np \in NmapPortsNoted :
          LET r == nmap_add_port_evidence(evidence, p, np)
          IN  /\ SubSeq(r.evidence, 1, Len(evidence)) = evidence
              /\ \A k \in (Len(evidence) + 1)..Len(r.evidence), prefix \in Prefixes :
                    StartsWith(r.evidence[k].caption, prefix)
                    => ~\E j \in TextRows(NMAP_SOURCE, p) :
                           StartsWith(evidence[j].caption, prefix)
    /\ \A p \in PortIds(ports), rec \in GowitnessNoted :
          (/\ rec.server_header # <<>>
           /\ ~\E j \in TextRows(GOWITNESS_SOURCE, p) :
                  Contains(evidence[j].caption, <<"Server:">> \o rec.server_header))
          => LET r == gowitness_add_metadata([evidence |-> evidence, added |-> 0], p,
                                             gowitness_metadata(rec))
             IN  /\ r.added = 1
                 /\ r.evidence[Len(r.evidence)].caption
                      = <<"Server:">> \o rec.server_header \o <<"[gowitness]">>

\* C10 witness: a port holds two gowitness Server notes of different values,
\* and an nmap run that reported another version than the port's nmap Server
\* note has just ended without adding a row.
TextDedupKeysSeen ==
    /\ ImportDone(NMAP_SOURCE)
    /\ summary.evidence_created = 0
    /\ summary.ports_updated = 1
    /\ ports[1].banner = <<"2.0">>
    /\ \E k \in TextRows(NMAP_SOURCE, 1) : evidence[k].caption = <<"Server:", "1.0", "[nmap]">>
    /\ \E j, k \in TextRows(GOWITNESS_SOURCE, 1) :
          /\ j # k
          /\ StartsWith(evidence[j].caption, <<"Server:">>)
          /\ StartsWith(evidence[k].caption, <<"Server:">>)

(***************************************************************************)
(* SpecIdem: one nmap file imported twice into an empty project.  replay   *)
(* holds the parsed file, the pass, and the row counts after the first     *)
(* pass.                                                                   *)
(***************************************************************************)
\* run_nmap_import is called on a parsed file; the project is empty.
ReplayStart(files) ==
    /\ run = Idle
    /\ replay.pass = 0
    /\ \E f \in files, m \in BOOLEAN :
          /\ replay' = [NoReplay EXCEPT !.file = f, !.meta = m, !.pass = 1]
          /\ run' = [Idle EXCEPT !.tool = NMAP_SOURCE, !.left = Len(f), !.meta = m]
    /\ summary' = ZeroSummary
    /\ UNCHANGED <<hosts, subnets, ports, evidence, upload, workers, audit, locks, clock, answer>>

\* One pass of the loop of run_nmap_import over the file's next host.
ReplayRecord ==
    /\ Importing(NMAP_SOURCE)
    /\ replay.pass \in {1, 2}
    /\ LET nh == replay.file[Len(replay.file) - run.left + 1]
       IN  \E existing \in nmap_host_lookup(hosts, nh) :
              Commit(nmap_import_host(Store, nh, existing, run.meta))
    /\ run' = Consumed
    /\ UNCHANGED <<replay, upload, workers, audit, locks, clock, answer>>

\* The first run has returned; run_nmap_import is called on the same file.
ReplayAgain ==
    /\ ImportDone(NMAP_SOURCE)
    /\ replay.pass = 1
    /\ replay' = [replay EXCEPT !.pass = 2, !.hosts = Len(hosts), !.ports = Len(ports),
                                !.evidence = Len(evidence)]
    /\ run' = [run EXCEPT !.left = Len(replay.file)]
    /\ summary' = ZeroSummary
    /\ UNCHANGED <<hosts, subnets, ports, evidence, upload, workers, audit, locks, clock, answer>>

ReplayHosts ==
    {NmapHostRec(ip, "a", "up", pl) :
        ip \in {IpA, IpB, UNRESOLVED_IP},
        pl \in {<<>>, <<NmapPortRec(80, "open", "http", "1.0", <<>>)>>}}

ReplayFiles == UNION {[1..n -> ReplayHosts] : n \in 1..MaxReplayLen}

NextIdem ==
    \/ ReplayStart(ReplayFiles)
    \/ ReplayRecord
    \/ ReplayAgain

SpecIdem == InitEmpty /\ [][NextIdem]_vars

RECURSIVE PortCount(_)
PortCount(file) == IF file = <<>> THEN 0 ELSE Len(Head(file).ports) + PortCount(Tail(file))

\* C3 as stated: after the second run of the same file the project has as
\* many host, port and evidence rows as after the first, and the second
\* run's summary has hosts_created = 0, ports_created = 0, evidence_created
\* = 0, hosts_updated = the file's hosts and ports_updated = the file's
\* ports.
ReplayIdempotent ==
    (replay.pass = 2 /\ run.left = 0) =>
        /\ Len(hosts) = replay.hosts
        /\ Len(ports) = replay.ports
        /\ Len(evidence) = replay.evidence
        /\ summary.hosts_created = 0
        /\ summary.ports_created = 0
        /\ summary.evidence_created = 0
        /\ summary.hosts_updated = Len(replay.file)
        /\ summary.ports_updated = PortCount(replay.file)

(***************************************************************************)
(* SpecShot: screenshots of one host with two ports.  The project was      *)
(* restored from a mission archive, which is the one way a row without a   *)
(* source can carry a sha256.                                              *)
(***************************************************************************)
\* _import_one_project: the rows of the archive become the new project's
\* rows, field by field.
mission_import_project(payload) ==
    [hosts |-> payload.hosts, subnets |-> payload.subnets, ports |-> payload.ports,
     evidence |-> payload.evidence]

ArchivePort(number) ==
    PortRow(1, "tcp", number, "open", None, None, <<>>, "manual",
            CreatedBy(HUMAN, "open", None, None, <<>>))

\* Archives of one host with ports 80 and 443 and at most one attachment
\* whose export carries a sha256 and no source.
MissionArchives ==
    {[hosts |-> <<HostRow(IpA, None, "unknown", 1, None)>>,
      subnets |-> <<cidr_for_ip(IpA)>>,
      ports |-> <<ArchivePort(80), ArchivePort(443)>>,
      evidence |-> evs] :
        evs \in {<<>>} \cup {<<EvidenceRow(p, None, <<>>, "sha-1", TRUE)>> : p \in {1, 2}}}

InitRestored ==
    /\ \E payload \in MissionArchives :
          LET st == mission_import_project(payload)
          IN  /\ hosts = st.hosts
              /\ subnets = st.subnets
              /\ ports = st.ports
              /\ evidence = st.evidence
    /\ run = Idle
    /\ summary = ZeroSummary
    /\ replay = NoReplay
    /\ upload = NoUpload
    /\ workers = NoWorkers
    /\ audit = NoAudit
    /\ locks = NoLocks
    /\ clock = 0
    /\ answer = NoResponse

ShotRecs ==
    {GowitnessRec(ParsedIp(IpA, n, "http"), shot, <<>>, server) :
        n \in {80, 443}, shot \in {"sha-1", "sha-2"}, server \in {<<>>, <<"nginx">>}}

NextShot ==
    \/ StartImport({GOWITNESS_SOURCE}, {FALSE})
    \/ GowitnessRecord(ShotRecs)
    \/ FinishImport

SpecShot == InitRestored /\ [][NextShot]_vars

\* Rows of a table that hold a stored file.
Files(evs) == {k \in EvIds(evs) : evs[k].stored}

\* C11: in every reachable store and for every screenshot record, the
\* screenshot is skipped (no file row added, skipped + 1) exactly when a row
\* of the same port with source gowitness and the same sha256 exists, and
\* is otherwise stored as one new gowitness row; so no two rows share
\* (port, gowitness, sha256).  A row of no source or of another port with
\* the same sha256 is not counted.
ScreenshotSkippedByKey ==
    /\ \A rec \in ShotRecs : \A existing \in gowitness_host_lookup(hosts, rec.parsed) :
          LET r == gowitness_import_record(Store, rec, existing)
              p == port_lookup(ports, existing, "tcp", rec.parsed.port)
              same == {k \in EvIds(evidence) :
                          /\ evidence[k].port_id = p
                          /\ evidence[k].source = GOWITNESS_SOURCE
                          /\ evidence[k].sha256 = rec.screenshot}
          IN  IF same # {}
              THEN /\ Files(r.evidence) = Files(evidence)
                   /\ r.summary.skipped = summary.skipped + 1
                   /\ r.summary.screenshots_imported = summary.screenshots_imported
              ELSE /\ r.summary.skipped = summary.skipped
                   /\ r.summary.screenshots_imported = summary.screenshots_imported + 1
                   /\ Files(r.evidence) = Files(evidence) \cup {Len(evidence) + 1}
                   /\ r.evidence[Len(evidence) + 1].port_id = p
                   /\ r.evidence[Len(evidence) + 1].source = GOWITNESS_SOURCE
                   /\ r.evidence[Len(evidence) + 1].sha256 = rec.screenshot
    /\ \A j, k \in Files(evidence) :
          (/\ evidence[j].source = GOWITNESS_SOURCE
           /\ evidence[k].source = GOWITNESS_SOURCE
           /\ evidence[j].port_id = evidence[k].port_id
           /\ evidence[j].sha256 = evidence[k].sha256) => j = k

\* C11 witness: a run has just skipped a screenshot, in a store where the
\* same sha256 sits on a restored row without source and on gowitness rows
\* of both ports.
ScreenshotSkippedByKeySeen ==
    /\ ImportDone(GOWITNESS_SOURCE)
    /\ summary.skipped = 1
    /\ \E h, a, b \in EvIds(evidence) :
          /\ evidence[h].source = None /\ evidence[h].sha256 = "sha-1"
          /\ evidence[a].source = GOWITNESS_SOURCE /\ evidence[a].sha256 = "sha-1"
          /\ evidence[a].port_id = evidence[h].port_id
          /\ evidence[b].source = GOWITNESS_SOURCE /\ evidence[b].sha256 = "sha-1"
          /\ evidence[b].port_id # evidence[a].port_id

(***************************************************************************)
(* SpecKey: the port key under sequential imports of every tool that       *)
(* writes ports, on two addresses, with tcp and udp records of one number.  *)
(***************************************************************************)
KeyProtocols == {"tcp", "udp"}

KeyNmapPorts == {[NmapPortRec(80, "open", None, None, <<>>) EXCEPT !.protocol = pr] :
                    pr \in KeyProtocols}

\* A host element with one port element, or two that may repeat a key.
KeyNmapHosts ==
    {NmapHostRec(ip, None, "up", <<a>>) : ip \in Ips, a \in KeyNmapPorts}
    \cup {NmapHostRec(IpA, None, "up", <<a, b>>) : a \in KeyNmapPorts, b \in KeyNmapPorts}

KeyMasscanHosts ==
    {[ip |-> IpA, ports |-> <<[MasscanPortRec(80, "open") EXCEPT !.protocol = pr]>>] :
        pr \in KeyProtocols}

KeyPortBodies ==
    [host_id : {1}, protocol : KeyProtocols, number : {80}, state : {None},
     service_name : {None}, service_version : {None}, banner : {<<>>},
     discovered_by : {None}]

NextKey ==
    \/ StartImport({NMAP_SOURCE, MASSCAN_SOURCE, GOWITNESS_SOURCE}, {FALSE})
    \/ NmapRecord(KeyNmapHosts)
    \/ MasscanRecord(KeyMasscanHosts)
    \/ GowitnessRecord(GowitnessPlain)
    \/ FinishImport
    \/ HumanCreatePort(KeyPortBodies)

SpecKey == InitEmpty /\ [][NextKey]_vars

\* C12: no two port rows share (host, protocol, number), after any sequence
\* of imports run one after the other by nmap, masscan and gowitness.
PortKeyUnique ==
    \A j, k \in PortIds(ports) :
        (/\ ports[j].host_id = ports[k].host_id
         /\ ports[j].protocol = ports[k].protocol
         /\ ports[j].number = ports[k].number) => j = k

\* C12 witness: a gowitness run has ended on a record whose port key an nmap
\* run had created, with no port created, next to a udp row of the same
\* number.
PortKeyUniqueSeen ==
    /\ ImportDone(GOWITNESS_SOURCE)
    /\ summary.ports_created = 0
    /\ \E j, k \in PortIds(ports) :
          /\ ports[j].protocol = "tcp" /\ ports[j].discovered_by = NMAP_SOURCE
          /\ ports[k].protocol = "udp" /\ ports[k].number = ports[j].number

(***************************************************************************)
(* SpecSubnet: the subnet resolver, called by the text importer and by     *)
(* POST /hosts for addresses of two IPv4 /24 and two IPv6 /64 networks.    *)
(***************************************************************************)
SubnetIps ==
    {IPv4(10, 0, 0, 5), IPv4(10, 0, 0, 200), IPv4(10, 0, 0, 1), IPv4(10, 0, 1, 1),
     IPv6(8193, 1), IPv6(8193, 2), IPv6(8194, 1)}

SubnetTextHosts == [ip : SubnetIps, hostname : {None}]

SubnetHostBodies == [ip : SubnetIps, dns_name : {None}, status : {None}]

NextSubnet ==
    \/ StartImport({TEXT_IMPORT_SOURCE}, {FALSE})
    \/ TextRecord(SubnetTextHosts)
    \/ FinishImport
    \/ HumanCreateHost(SubnetHostBodies)

SpecSubnet == InitEmpty /\ [][NextSubnet]_vars

\* Two addresses of one /24 (IPv4) or one /64 (IPv6).
SameNetwork(a, b) ==
    /\ a.kind = b.kind
    /\ IF a.kind = "v4" THEN a.lo \div 256 = b.lo \div 256 ELSE a.hi = b.hi

\* The network row is the /24 or /64 that holds the address.
Covers(net, ip) ==
    /\ net.kind = ip.kind
    /\ IF ip.kind = "v4"
       THEN net.prefix = 24 /\ net.lo % 256 = 0 /\ net.lo <= ip.lo /\ ip.lo < net.lo + 256
       ELSE net.prefix = 64 /\ net.hi = ip.hi /\ net.lo = 0

MaxBadFileLen == 2

CaughtHosts ==
    {NmapHostRec(IpA, n, "up", <<>>) : n \in {None, "a", LongName}}
    \cup {NmapHostRec(IpB, None, "up", <<NmapPortRec(80, "open", None, None, <<>>)>>)}

NextCaught ==
    \/ StartImportUpTo({NMAP_SOURCE}, {FALSE}, MaxBadFileLen)
    \/ NmapRecord(CaughtHosts)
    \/ FinishImport
    \/ FinishRaises

SpecCaught == InitEmpty /\ [][NextCaught]_vars

\* C14 as stated: when the loop of an nmap import is over, the summary holds
\* one error string for each host element whose reconciliation raised, and
\* the commit that ends the import succeeds, so the summary is returned.
BadRecordIsolated ==
    ImportDone(NMAP_SOURCE) => summary.errors = run.bad /\ run.session = "active"

(***************************************************************************)
(* The upload route and the dispatcher.  A file is its lower-cased name,   *)
(* its extension, whether its bytes can be read, and its content: a kind   *)
(* that stands for what the sniffers see in the bytes, the records its     *)
(* parser yields (at most one per file) and the number of parse errors.    *)
(* An error string is a record of the filename prefix and the text.        *)
(***************************************************************************)
MaxBatchLen == 2

ALLOWED_IMPORT_EXTENSIONS == {".xml", ".zip", ".txt", ".json", ".masscan", ".lst"}

IMPORT_FORMAT_NMAP == "nmap"
IMPORT_FORMAT_GOWITNESS == "gowitness"
IMPORT_FORMAT_TEXT == "text"

UploadFile(name, ext, readable, kind, recs, errors) ==
    [name |-> name, ext |-> ext, readable |-> readable,
     content |-> [kind |-> kind, recs |-> recs, errors |-> errors]]

ErrorString(file, text) == [file |-> file, text |-> text]

RECURSIVE Errors(_, _)
Errors(n, text) == IF n = 0 THEN <<>> ELSE <<ErrorString(None, text)>> \o Errors(n - 1, text)

\* The sniffer of nmap XML, on the bytes.
is_nmap_xml(content) == content.kind = "nmap_xml"

\* zipfile.ZipFile(...) reads the central directory; namelist() follows.
ZipKinds == {"nmap_zip", "shots_zip", "damaged_zip", "other_zip"}

detect_import_format(content, ext) ==
    IF ext = ".xml"
    THEN IF is_nmap_xml(content) THEN [format |-> IMPORT_FORMAT_NMAP, err |-> None]
         ELSE [format |-> None, err |-> "Invalid or unsupported XML format"]
    ELSE IF ext = ".zip"
    THEN IF content.kind \notin ZipKinds
         THEN [format |-> None, err |-> "Invalid or corrupted ZIP file"]
         ELSE IF content.kind = "nmap_zip" THEN [format |-> IMPORT_FORMAT_NMAP, err |-> None]
         ELSE IF content.kind \in {"shots_zip", "damaged_zip"}
         THEN [format |-> IMPORT_FORMAT_GOWITNESS, err |-> None]
         ELSE [format |-> None, err |-> "ZIP contents not recognized"]
    ELSE IF ext = ".txt" THEN [format |-> IMPORT_FORMAT_TEXT, err |-> None]
    ELSE IF ext = ".gnmap" THEN [format |-> None, err |-> "Grepable format is not yet supported"]
    ELSE IF ext = ".nmap" THEN [format |-> None, err |-> "Normal format is not yet supported"]
    ELSE IF is_nmap_xml(content) THEN [format |-> IMPORT_FORMAT_NMAP, err |-> None]
    ELSE [format |-> None, err |-> "Unsupported file format"]

\* The unified summary dict; a key an importer leaves out reads as 0.
FileResult(format, sm, errors) ==
    [format |-> format, hosts_created |-> sm.hosts_created,
     hosts_updated |-> sm.hosts_updated, ports_created |-> sm.ports_created,
     ports_updated |-> sm.ports_updated, evidence_created |-> sm.evidence_created,
     screenshots_imported |-> sm.screenshots_imported,
     metadata_records_imported |-> sm.metadata_records_imported, skipped |-> sm.skipped,
     errors |-> errors]

Raised(exception, message, st) ==
    [raised |-> exception, message |-> message, result |-> FileResult("unknown", ZeroSummary, <<>>),
     st |-> st]

Returned(format, st, errors) ==
    [raised |-> None, message |-> None, result |-> FileResult(format, st.summary, errors),
     st |-> st]

\* What run_import makes of the return of run_nmap_import for one record: a
\* session left inactive makes the commit of the completed event raise.
nmap_import_returned(r, parse_errors) ==
    IF r.session = "inactive" THEN Raised("PendingRollbackError", None, r)
    ELSE Returned("nmap", r, parse_errors \o Errors(r.summary.errors, "record error"))

\* run_import for a file whose parser yields at most one record; existing is
\* the row the record's host lookup returns.
run_import(st0, content, ext, existing) ==
    LET d == detect_import_format(content, ext)
        st == [st0 EXCEPT !.summary = ZeroSummary, !.session = "active"]
        parse_errors == Errors(content.errors, "parse error")
    IN  IF d.format = None THEN Raised("ValueError", d.err, st)
        ELSE IF d.format = IMPORT_FORMAT_NMAP
        THEN IF content.errors > 0 /\ content.recs = <<>>
             THEN Raised("ValueError", "parse error", st)
             ELSE IF content.recs = <<>> THEN Returned("nmap", st, parse_errors)
             ELSE nmap_import_returned(
                      run_nmap_import_host(st, content.recs[1], existing, FALSE), parse_errors)
        ELSE IF d.format = IMPORT_FORMAT_GOWITNESS
        THEN IF content.kind = "damaged_zip" THEN Raised("BadZipFile", None, st)
             ELSE IF content.recs = <<>> /\ content.errors > 0
             THEN Raised("ValueError", "parse error", st)
             ELSE IF content.recs = <<>> THEN Returned("gowitness", st, parse_errors)
             ELSE Returned("gowitness", gowitness_import_record(st, content.recs[1], existing),
                           parse_errors)
        ELSE IF content.recs = <<>> THEN Returned("text", st, parse_errors)
             ELSE Returned("text", text_import_host(st, content.recs[1], existing),
                           parse_errors)

\* The rows the host lookup of the file's record can return.
Lookups(hs, f) ==
    LET d == detect_import_format(f.content, f.ext)
    IN  IF f.content.recs = <<>> \/ d.format = None THEN {0}
        ELSE IF d.format = IMPORT_FORMAT_NMAP THEN nmap_host_lookup(hs, f.content.recs[1])
        ELSE IF d.format = IMPORT_FORMAT_GOWITNESS
        THEN gowitness_host_lookup(hs, f.content.recs[1].parsed)
        ELSE text_host_lookup(hs, f.content.recs[1])

Rejected(f, text, st) ==
    [raised |-> None, format |-> "unknown", st |-> st,
     result |-> FileResult("unknown", ZeroSummary, <<ErrorString(f.name, text)>>)]

\* The error strings of one file, each behind the file's name.
Prefixed(name, errors) == [i \in 1..Len(errors) |-> ErrorString(name, errors[i].text)]

\* What the loop of import_scan makes of one call of run_import: a
\* ValueError is the file's error, any other exception leaves the handler,
\* and the errors of a result get the file's name in front.
import_scan_result(st, f, r) ==
    IF r.raised = "ValueError" THEN Rejected(f, r.message, st)
    ELSE IF r.raised # None
    THEN [raised |-> r.raised, format |-> "unknown", st |-> r.st, result |-> r.result]
    ELSE [raised |-> None, format |-> r.result.format, st |-> r.st,
          result |-> [r.result EXCEPT !.errors = Prefixed(f.name, r.result.errors)]]

\* One pass of the loop of import_scan.
import_scan_file(st, f, existing) ==
    IF f.ext \notin ALLOWED_IMPORT_EXTENSIONS THEN Rejected(f, "Unsupported file type", st)
    ELSE IF ~f.readable THEN Rejected(f, "Failed to read file", st)
    ELSE IF f.content.kind = "empty" THEN Rejected(f, "Empty file", st)
    ELSE import_scan_result(st, f, run_import(st, f.content, f.ext, existing))

numeric_keys ==
    {"hosts_created", "hosts_updated", "ports_created", "ports_updated", "evidence_created",
     "screenshots_imported", "metadata_records_imported", "skipped"}

RECURSIVE SumKey(_, _)
SumKey(results, k) ==
    IF results = <<>> THEN 0 ELSE Head(results)[k] + SumKey(Tail(results), k)

RECURSIVE ConcatErrors(_)
ConcatErrors(results) ==
    IF results = <<>> THEN <<>> ELSE Head(results).errors \o ConcatErrors(Tail(results))

_aggregate_import_results(results, formats) ==
    IF results = <<>>
    THEN [format |-> "unknown", counters |-> [k \in numeric_keys |-> 0], errors |-> <<>>,
          files_processed |-> 0]
    ELSE [format |-> IF Cardinality({formats[i] : i \in 1..Len(formats)}) = 1
                     THEN formats[1] ELSE "mixed",
          counters |-> [k \in numeric_keys |-> SumKey(results, k)],
          errors |-> ConcatErrors(results),
          files_processed |-> Len(results)]

\* POST /projects/{id}/import arrives with its files.
ReceiveUpload(batches) ==
    /\ run = Idle
    /\ upload = NoUpload
    /\ \E files \in batches : upload' = [NoUpload EXCEPT !.files = files, !.status = "files"]
    /\ UNCHANGED <<hosts, subnets, ports, evidence, run, summary, replay, workers, audit, locks, clock, answer>>

\* The next file of the request goes through the loop of import_scan.
ImportFile ==
    /\ upload.status = "files"
    /\ Len(upload.results) < Len(upload.files)
    /\ LET f == upload.files[Len(upload.results) + 1]
       IN  \E existing \in Lookups(hosts, f) :
              \E r \in {import_scan_file(Store, f, existing)} :
                  /\ Fits(r.st)
                  /\ hosts' = r.st.hosts
                  /\ subnets' = r.st.subnets
                  /\ ports' = r.st.ports
                  /\ evidence' = r.st.evidence
                  /\ upload' = IF r.raised # None THEN [upload EXCEPT !.status = "raised"]
                               ELSE [upload EXCEPT !.results = Append(@, r.result),
                                                   !.formats = Append(@, r.format)]
    /\ UNCHANGED <<run, summary, replay, workers, audit, locks, clock, answer>>

\* Every file is done: the aggregate is the response.
RespondUpload ==
    /\ upload.status = "files"
    /\ Len(upload.results) = Len(upload.files)
    /\ upload' = [upload EXCEPT !.status = "done"]
    /\ UNCHANGED <<hosts, subnets, ports, evidence, run, summary, replay, workers, audit, locks, clock, answer>>

\* The response, or the error of a request that raised, has been sent.
CloseUpload ==
    /\ upload.status \in {"done", "raised"}
    /\ upload' = NoUpload
    /\ UNCHANGED <<hosts, subnets, ports, evidence, run, summary, replay, workers, audit, locks, clock, answer>>

BatchFiles ==
    {UploadFile("notes.pdf", ".pdf", TRUE, "other", <<>>, 0),
     UploadFile("empty.xml", ".xml", TRUE, "empty", <<>>, 0),
     UploadFile("unreadable.xml", ".xml", FALSE, "nmap_xml", <<>>, 0),
     UploadFile("scan.xml", ".xml", TRUE, "nmap_xml", <<NmapHostRec(IpA, None, "up", <<>>)>>, 0),
     UploadFile("broken.xml", ".xml", TRUE, "nmap_xml", <<>>, 1),
     UploadFile("page.xml", ".xml", TRUE, "xml", <<>>, 0),
     UploadFile("truncated.zip", ".zip", TRUE, "bad_zip", <<>>, 0),
     UploadFile("shots.zip", ".zip", TRUE, "shots_zip",
                <<GowitnessRec(ParsedIp(IpA, 80, "http"), "sha-1", <<>>, <<>>)>>, 0),
     UploadFile("damaged.zip", ".zip", TRUE, "damaged_zip", <<>>, 0),
     UploadFile("other.zip", ".zip", TRUE, "other_zip", <<>>, 0),
     UploadFile("hosts.txt", ".txt", TRUE, "host_list", <<[ip |-> IpB, hostname |-> None]>>, 0),
     UploadFile("typos.txt", ".txt", TRUE, "host_list", <<[ip |-> IpB, hostname |-> None]>>, 1),
     UploadFile("whois.json", ".json", TRUE, "whois_json", <<IpB>>, 0),
     UploadFile("ports.masscan", ".masscan", TRUE, "masscan_list",
                <<[ip |-> IpA, ports |-> <<MasscanPortRec(80, "open")>>]>>, 0),
     UploadFile("ports.lst", ".lst", TRUE, "masscan_list",
                <<[ip |-> IpA, ports |-> <<MasscanPortRec(80, "open")>>]>>, 0)}

Batches == UNION {[1..n -> BatchFiles] : n \in 1..MaxBatchLen}

NextBatch ==
    \/ ReceiveUpload(Batches)
    \/ ImportFile
    \/ RespondUpload
    \/ CloseUpload

SpecBatch == InitEmpty /\ [][NextBatch]_vars

\* The claim's fatal rejections: unsupported extension, empty file,
\* unreadable bytes, unrecognized format, corrupt archive, no usable record
\* with parse errors.
FatallyRejected(f) ==
    \/ f.ext \notin ALLOWED_IMPORT_EXTENSIONS
    \/ f.content.kind = "empty"
    \/ ~f.readable
    \/ f.content.kind \in {"xml", "other_zip", "bad_zip", "damaged_zip"}
    \/ f.content.recs = <<>> /\ f.content.errors > 0

\* C15 as stated: a request never raises on a fatally rejected file; such a
\* file's result has zero counters and one error that starts with its
\* filename, and the response counts every uploaded file.
BadFileNeverBlocks ==
    /\ upload.status = "raised" =>
          ~FatallyRejected(upload.files[Len(upload.results) + 1])
    /\ \A i \in 1..Len(upload.results) :
          FatallyRejected(upload.files[i]) =>
              /\ \A k \in numeric_keys : upload.results[i][k] = 0
              /\ Len(upload.results[i].errors) = 1
              /\ upload.results[i].errors[1].file = upload.files[i].name
    /\ upload.status = "done" =>
          _aggregate_import_results(upload.results, upload.formats).files_processed
              = Len(upload.files)

\* The format the spec names for an accepted extension with well-formed
\* content of that extension.
NamedFormat(f) ==
    CASE f.ext = ".xml" /\ f.content.kind = "nmap_xml" -> "nmap"
      [] f.ext = ".zip" /\ f.content.kind = "nmap_zip" -> "nmap"
      [] f.ext = ".zip" /\ f.content.kind = "shots_zip" -> "gowitness"
      [] f.ext = ".txt" /\ f.content.kind = "host_list" -> "text"
      [] f.ext = ".json" /\ f.content.kind = "whois_json" -> "whois"
      [] f.ext \in {".masscan", ".lst"} /\ f.content.kind = "masscan_list" -> "masscan"
      [] OTHER -> None

\* C18 as stated: every file of an accepted extension whose content is
\* well-formed and yields a record is imported under the format the spec
\* names for the extension, and is not rejected.
RoutedByExtension ==
    \A i \in 1..Len(upload.results) :
        LET f == upload.files[i]
        IN  (/\ f.readable
             /\ f.content.recs # <<>>
             /\ f.content.errors = 0
             /\ NamedFormat(f) # None) =>
                /\ upload.formats[i] = NamedFormat(f)
                /\ upload.results[i].errors = <<>>

\* The formats the sniffer detected for the files of the request.
DetectedFormats == {upload.formats[i] : i \in 1..Len(upload.formats)} \ {"unknown"}

\* C19 as stated: the response sums each counter over the per-file
\* results, holds each file's errors in file order under the file's name,
\* counts the files, and names the one detected format of the imported
\* files, or 'mixed' only when more than one format was detected.
AggregatedAsStated ==
    upload.status = "done" =>
        LET response == _aggregate_import_results(upload.results, upload.formats)
        IN  /\ \A k \in numeric_keys : response.counters[k] = SumKey(upload.results, k)
            /\ response.files_processed = Len(upload.files)
            /\ response.errors = ConcatErrors(upload.results)
            /\ \A e \in 1..Len(response.errors) : response.errors[e].file # None
            /\ \A x \in DetectedFormats : DetectedFormats = {x} => response.format = x
            /\ response.format = "mixed" => Cardinality(DetectedFormats) > 1

(***************************************************************************)
(* Two imports of one project served at the same time.  Each request has   *)
(* its own session and its own summary; the tables are shared, and every   *)
(* commit is visible to the other request's next query.  A worker's file   *)
(* holds one resolved host element with one port, so the update paths of   *)
(* both reconcilers leave the columns of a matched row as they are.        *)
(***************************************************************************)
RacePort == [port_id |-> 80, protocol |-> "tcp", state |-> "open", service_name |-> None,
             product |-> None, version |-> None, extrainfo |-> None, tunnel |-> None,
             scripts |-> <<>>]

RaceHosts == {NmapHostRec(ip, n, "up", <<RacePort>>) : ip \in Ips, n \in {None, "a"}}

At(w, pc) == workers[w].pc = pc

WorkerStore(w) ==
    [hosts |-> hosts, subnets |-> subnets, ports |-> ports, evidence |-> evidence,
     summary |-> workers[w].summary, session |-> workers[w].session]

\* The request enters run_nmap_import with its parsed file.
RaceStart(w) ==
    /\ At(w, "idle")
    /\ run = Idle
    /\ \E nh \in RaceHosts :
          workers' = [workers EXCEPT ![w] = [IdleWorker EXCEPT !.pc = "host_lookup", !.nh = nh]]
    /\ UNCHANGED <<hosts, subnets, ports, evidence, run, summary, replay, upload, audit, locks, clock, answer>>

\* The queries at the head of _find_or_create_host.
RaceHostLookup(w) ==
    /\ At(w, "host_lookup")
    /\ \E existing \in nmap_host_lookup(hosts, workers[w].nh) :
          workers' = [workers EXCEPT ![w].pc = "host_write", ![w].existing = existing]
    /\ UNCHANGED <<hosts, subnets, ports, evidence, run, summary, replay, upload, audit, locks, clock, answer>>

\* The rest of _find_or_create_host, on the row the queries returned, and
\* the counting of the host in the loop of run_nmap_import.
RaceHostWrite(w) ==
    /\ At(w, "host_write")
    /\ LET h == nmap_find_or_create_host(hosts, subnets, workers[w].nh, workers[w].existing)
       IN  /\ Len(h.hosts) <= MaxHosts
           /\ hosts' = h.hosts
           /\ subnets' = h.subnets
           /\ workers' = [workers EXCEPT
                 ![w].pc = "port_lookup",
                 ![w].host = h.host,
                 ![w].summary = Bump(@, IF h.created THEN "hosts_created"
                                        ELSE "hosts_updated", 1)]
    /\ UNCHANGED <<ports, evidence, run, summary, replay, upload, audit, locks, clock, answer>>

\* The query at the head of _find_or_create_port.
RacePortLookup(w) ==
    /\ At(w, "port_lookup")
    /\ LET np == Head(workers[w].nh.ports)
       IN  workers' = [workers EXCEPT
              ![w].pc = "port_write",
              ![w].port = port_lookup(ports, workers[w].host,
                                      normalize_protocol(np.protocol), np.port_id)]
    /\ UNCHANGED <<hosts, subnets, ports, evidence, run, summary, replay, upload, audit, locks, clock, answer>>

\* The store's unique constraint on (host_id, protocol, number) refuses the
\* INSERT of a port whose key another request has committed since the query.
port_insert_raises(ps, host, np, looked) ==
    looked = 0 /\ port_lookup(ps, host, normalize_protocol(np.protocol), np.port_id) # 0

\* The rest of the port's pass through the inner loop of run_nmap_import:
\* the update or the INSERT, the evidence of the port, and the except clause.
\* A refused INSERT raises out of db.commit() and leaves the session's
\* transaction rolled back; the except clause appends one error string.
run_nmap_import_port(st, host, np, looked) ==
    IF port_insert_raises(st.ports, host, np, looked)
    THEN [st EXCEPT !.summary = Bump(@, "errors", 1), !.session = "inactive"]
    ELSE nmap_import_ports(st, host, <<np>>, FALSE)

RacePortWrite(w) ==
    /\ At(w, "port_write")
    /\ LET np == Head(workers[w].nh.ports)
           r == run_nmap_import_port(WorkerStore(w), workers[w].host, np, workers[w].port)
       IN  /\ Fits(r)
           /\ ports' = r.ports
           /\ evidence' = r.evidence
           /\ workers' = [workers EXCEPT
                 ![w].pc = "finish",
                 ![w].summary = r.summary,
                 ![w].session = r.session,
                 ![w].conflicts = @ + (IF port_insert_raises(ports, workers[w].host, np,
                                                             workers[w].port)
                                       THEN 1 ELSE 0)]
    /\ UNCHANGED <<hosts, subnets, run, summary, replay, upload, audit, locks, clock, answer>>

\* The completed event is logged and committed, and the summary returned.
RaceFinish(w) ==
    /\ At(w, "finish")
    /\ workers[w].session = "active"
    /\ workers' = [workers EXCEPT ![w].pc = "done"]
    /\ UNCHANGED <<hosts, subnets, ports, evidence, run, summary, replay, upload, audit, locks, clock, answer>>

\* The commit of the completed event raises on a session whose transaction
\* was rolled back: the request ends without a summary.
RaceFinishRaises(w) ==
    /\ At(w, "finish")
    /\ workers[w].session = "inactive"
    /\ workers' = [workers EXCEPT ![w].pc = "raised"]
    /\ UNCHANGED <<hosts, subnets, ports, evidence, run, summary, replay, upload, audit, locks, clock, answer>>

\* The response is sent and the worker takes the next request.
RaceReturn(w) ==
    /\ workers[w].pc \in {"done", "raised"}
    /\ workers' = [workers EXCEPT ![w] = IdleWorker]
    /\ UNCHANGED <<hosts, subnets, ports, evidence, run, summary, replay, upload, audit, locks, clock, answer>>

NextRace ==
    \/ \E w \in Workers : RaceStart(w)
    \/ \E w \in Workers : RaceHostLookup(w)
    \/ \E w \in Workers : RaceHostWrite(w)
    \/ \E w \in Workers : RacePortLookup(w)
    \/ \E w \in Workers : RacePortWrite(w)
    \/ \E w \in Workers : RaceFinish(w)
    \/ \E w \in Workers : RaceFinishRaises(w)
    \/ \E w \in Workers : RaceReturn(w)

SpecRace == InitEmpty /\ [][NextRace]_vars

\* C16: imports of one project are not serialized.  A request whose host
\* queries returned no row inserts a row with the record's address and
\* hostname, whatever the other request has committed since the queries; so
\* two requests that both queried before either inserted leave two rows with
\* the same (ip, dns_name).
StaleLookupInserts ==
    [][\A w \in Workers :
          (At(w, "host_write") /\ workers[w].existing = 0 /\ workers'[w].pc = "port_lookup")
              => /\ Len(hosts') = Len(hosts) + 1
                 /\ hosts'[Len(hosts')].ip = workers[w].nh.ip
                 /\ hosts'[Len(hosts')].dns_name = workers[w].nh.hostname
                 /\ workers'[w].summary.hosts_created = 1]_vars

\* Both requests have created a host for the same record, and the table
\* holds two rows with that address and hostname.
StaleLookupInsertsSeen ==
    /\ \A w \in Workers : workers[w].summary.hosts_created = 1
    /\ workers[1].nh = workers[2].nh
    /\ \E i, j \in HostIds(hosts) :
          /\ i # j
          /\ hosts[i].ip = hosts[j].ip
          /\ hosts[i].dns_name = hosts[j].dns_name
          /\ hosts[i].ip = workers[1].nh.ip
          /\ hosts[i].dns_name = workers[1].nh.hostname

\* C17 as stated: a request whose port INSERT was refused by the unique
\* constraint goes on as if it had found the port: it reports no error, it
\* counts the port as updated, and its import completes.
ConstraintViolationIsUpdate ==
    \A w \in Workers :
        workers[w].conflicts > 0 =>
            /\ workers[w].summary.errors = 0
            /\ workers[w].summary.ports_updated = 1
            /\ workers[w].session = "active"
            /\ ~At(w, "raised")

(***************************************************************************)
(* The audit trail of an orchestrator run.  audit holds the events the     *)
(* run in progress, or the last run, has logged; an event is its           *)
(* action_type, split into the tool's prefix and the rest, and the         *)
(* counters of its payload.  run.size is the number of records the parser  *)
(* returned.                                                               *)
(***************************************************************************)
AllTools == {NMAP_SOURCE, MASSCAN_SOURCE, TEXT_IMPORT_SOURCE, GOWITNESS_SOURCE, WHOIS_SOURCE}

audit_prefix(tool) ==
    IF tool = TEXT_IMPORT_SOURCE THEN "text"
    ELSE IF tool = WHOIS_SOURCE THEN "whois"
    ELSE tool

log_audit(tool, kind, after) == [action_type |-> <<audit_prefix(tool), kind>>, after |-> after]

Repeat(n, event) == [i \in 1..n |-> event]

\* The *_host_created and *_port_created events of one record; the whois
\* loop logs none.
created_events(tool, before, after) ==
    IF tool = WHOIS_SOURCE THEN <<>>
    ELSE Repeat(after.hosts_created - before.hosts_created, log_audit(tool, "host_created", None))
         \o Repeat(after.ports_created - before.ports_created,
                   log_audit(tool, "port_created", None))

AuditNmapHosts == {NmapHostRec(ip, None, "up", <<RacePort>>) : ip \in Ips}

AuditMasscanHosts == {[ip |-> ip, ports |-> <<MasscanPortRec(80, "open")>>] : ip \in Ips}

AuditTextHosts == [ip : Ips, hostname : {None}]

AuditGowitness ==
    {GowitnessRec(ParsedIp(ip, 80, "http"), shot, <<>>, <<>>) : ip \in Ips, shot \in {None, "sha-1"}}

\* The entry of an orchestrator on an existing project, with the parser's
\* result.  Every orchestrator but run_whois_import logs and commits its
\* started event here.
AuditStart ==
    /\ run = Idle
    /\ \E t \in AllTools, n \in 0..MaxFileLen :
          /\ run' = [Idle EXCEPT !.tool = t, !.left = n, !.size = n]
          /\ audit' = IF t = WHOIS_SOURCE THEN NoAudit
                      ELSE <<log_audit(t, "import_started", None)>>
    /\ summary' = ZeroSummary
    /\ UNCHANGED <<hosts, subnets, ports, evidence, replay, upload, workers, locks, clock, answer>>

\* The stores one pass of the running orchestrator's loop can leave, each
\* with the address of the record it consumed.
AuditOutcomes ==
    IF run.tool = NMAP_SOURCE
    THEN UNION {{[store |-> run_nmap_import_host(Store, nh, e, run.meta), ip |-> nh.ip] :
                    e \in nmap_host_lookup(hosts, nh)} : nh \in AuditNmapHosts}
    ELSE IF run.tool = MASSCAN_SOURCE
    THEN UNION {{[store |-> masscan_import_host(Store, mh, e), ip |-> mh.ip] :
                    e \in masscan_host_lookup(hosts, mh)} : mh \in AuditMasscanHosts}
    ELSE IF run.tool = TEXT_IMPORT_SOURCE
    THEN UNION {{[store |-> text_import_host(Store, th, e), ip |-> th.ip] :
                    e \in text_host_lookup(hosts, th)} : th \in AuditTextHosts}
    ELSE IF run.tool = WHOIS_SOURCE
    THEN UNION {{[store |-> whois_import_host(Store, ip, e), ip |-> ip] :
                    e \in whois_host_lookup(hosts, ip)} : ip \in Ips}
    ELSE UNION {{[store |-> gowitness_import_record(Store, rec, e), ip |-> gowitness_ip(rec.parsed)] :
                    e \in gowitness_host_lookup(hosts, rec.parsed)} : rec \in AuditGowitness}

\* One pass of the loop of the running orchestrator, its audit events
\* included.
AuditRecord ==
    /\ run.tool # "idle"
    /\ run.left > 0
    /\ \E r \in AuditOutcomes :
          /\ r.ip \notin run.seen
          /\ Commit(r.store)
          /\ run' = [Consumed EXCEPT !.seen = @ \cup {r.ip}]
          /\ audit' = audit \o created_events(run.tool, summary, r.store.summary)
    /\ UNCHANGED <<replay, upload, workers, locks, clock, answer>>

\* run_gowitness_import returns its summary as soon as the parser has
\* returned no record.
AuditReturnEmpty ==
    /\ run.tool = GOWITNESS_SOURCE
    /\ run.size = 0
    /\ run' = Idle
    /\ UNCHANGED <<hosts, subnets, ports, evidence, summary, replay, upload, workers, audit, locks, clock, answer>>

\* The end of an orchestrator after its loop: the closing event with the
\* counters of the summary, and the return of the summary.
AuditFinish ==
    /\ run.tool # "idle"
    /\ run.left = 0
    /\ ~(run.tool = GOWITNESS_SOURCE /\ run.size = 0)
    /\ audit' = Append(audit, log_audit(run.tool,
                                        IF run.tool = WHOIS_SOURCE THEN "import"
                                        ELSE "import_completed", summary))
    /\ run' = Idle
    /\ UNCHANGED <<hosts, subnets, ports, evidence, summary, replay, upload, workers, locks, clock, answer>>

NextAudit ==
    \/ AuditStart
    \/ AuditRecord
    \/ AuditReturnEmpty
    \/ AuditFinish

SpecAudit == InitEmpty /\ [][NextAudit]_vars

\* An orchestrator is straight-line code over a finite list: once entered it
\* runs its loop and its ending; requests arrive when users send them.
SpecAuditLive ==
    /\ SpecAudit
    /\ WF_vars(AuditRecord)
    /\ WF_vars(AuditReturnEmpty)
    /\ WF_vars(AuditFinish)

Logged(log, prefix, kind) == {i \in 1..Len(log) : log[i].action_type = <<prefix, kind>>}

\* The trail of a run of tool that returned sm: one started event, first; one
\* completed event, last, with the counters of sm.
Bracketed(tool, log, sm) ==
    /\ Cardinality(Logged(log, audit_prefix(tool), "import_started")) = 1
    /\ Cardinality(Logged(log, audit_prefix(tool), "import_completed")) = 1
    /\ log[1].action_type = <<audit_prefix(tool), "import_started">>
    /\ log[Len(log)].action_type = <<audit_prefix(tool), "import_completed">>
    /\ log[Len(log)].after = sm

StartedOpen ==
    \E t \in AllTools :
        /\ Logged(audit, audit_prefix(t), "import_started") # {}
        /\ Logged(audit, audit_prefix(t), "import_completed") = {}

StartedClosed ==
    \E t \in AllTools : Logged(audit, audit_prefix(t), "import_completed") # {}

\* C20 as stated: every orchestrator run that returns has logged exactly one
\* <tool>_import_started event before its other events and exactly one
\* <tool>_import_completed event after them, carrying the final counters;
\* and a trail with a started event and no completed event is eventually
\* followed by the completed event, also for a file of zero records.
StartedThenCompleted ==
    /\ [][(run.tool # "idle" /\ run'.tool = "idle") => Bracketed(run.tool, audit', summary')]_vars
    /\ (StartedOpen ~> StartedClosed)

(***************************************************************************)
(* Host status under the scanners.  nmap and the screenshot importer run   *)
(* one after the other on one project, over addresses and hostname-only    *)
(* targets, with and without a screenshot file.                            *)
(***************************************************************************)
StatusNmapHosts ==
    {NmapHostRec(ip, n, s, <<>>) : ip \in {IpA}, n \in {None, "a"}, s \in {"up", "down"}}
    \cup {NmapHostRec(UNRESOLVED_IP, "a", "up", <<>>)}

StatusShots ==
    {GowitnessRec(p, shot, <<>>, <<>>) :
        p \in {ParsedIp(IpA, 80, "http"), ParsedName("a", 80, "http")},
        shot \in {None, "sha-1"}}

NextStatus ==
    \/ StartImport({NMAP_SOURCE, GOWITNESS_SOURCE}, {FALSE})
    \/ NmapRecord(StatusNmapHosts)
    \/ GowitnessRecord(StatusShots)
    \/ FinishImport

SpecStatus == InitEmpty /\ [][NextStatus]_vars

\* C21 as stated: on every store the two importers can leave, a record
\* with a screenshot file leaves its host online, whether the file is stored
\* or skipped as a duplicate of a stored one.
ScreenshotSetsOnline ==
    \A rec \in StatusShots :
        Truthy(rec.screenshot) =>
            \A existing \in gowitness_host_lookup(hosts, rec.parsed) :
                LET h == gowitness_find_or_create_host(hosts, subnets, rec.parsed, existing)
                    r == gowitness_import_record(Store, rec, existing)
                IN  r.hosts[h.host].status = "online"

\* C22 as stated: on every store the two importers can leave, an nmap host
\* element with a real address and state up leaves the row it created or
\* matched online, whatever the row's status was.
NmapUpSetsOnline ==
    \A nh \in StatusNmapHosts :
        (nh.status = "up" /\ ~nh.is_unresolved) =>
            \A existing \in nmap_host_lookup(hosts, nh) :
                LET h == nmap_find_or_create_host(hosts, subnets, nh, existing)
                IN  h.hosts[h.host].status = "online"

\* C23 as stated: every row that carries the sentinel address has status
\* unresolved and no subnet.
SentinelStaysUnresolved ==
    \A i \in HostIds(hosts) :
        hosts[i].ip = UNRESOLVED_IP =>
            hosts[i].status = "unresolved" /\ hosts[i].subnet_id = 0

(***************************************************************************)
(* Screenshot file names.  The stem of an image name is the sequence of    *)
(* its parts between dashes; a part is a run of digits, kept as its        *)
(* number, or any other text.  Host names in the inputs have one label.    *)
(***************************************************************************)
Num(n) == [isdigit |-> TRUE, n |-> n, s |-> None]

Word(s) == [isdigit |-> FALSE, n |-> 0, s |-> s]

NoPort == 0 - 1

\* The address column for a host text made of numeric labels: a dotted quad
\* is an IPv4 address; any other run of numbers is stored as it is and is
\* no address to the subnet resolver.
RECURSIVE Packed(_)
Packed(labels) ==
    IF labels = <<>> THEN 0 ELSE Packed(SubSeq(labels, 1, Len(labels) - 1)) * 256
                                  + (labels[Len(labels)].n % 256)

host_text(labels) ==
    IF Len(labels) = 4 /\ \A i \in 1..4 : labels[i].n <= 255
    THEN IPv4(labels[1].n, labels[2].n, labels[3].n, labels[4].n)
    ELSE [kind |-> "text", hi |-> Len(labels), lo |-> Packed(labels)]

\* No URL, and no parsed URL: what the two functions return as None.
NoUrl == [scheme |-> None, host |-> <<>>, port |-> NoPort]

NoParsed ==
    [is_ip |-> FALSE, host_ip |-> UNRESOLVED_IP, host_name |-> None,
     hostname |-> None, port |-> 0, protocol |-> None]

\* _filename_to_url_guess: the URL as its scheme, the labels of its host
\* and its port (NoPort when the URL has none).
filename_to_url_guess(parts) ==
    IF Len(parts) < 2 THEN NoUrl
    ELSE IF parts[1].s \notin {"http", "https"} THEN NoUrl
    ELSE LET rest == Tail(parts)
             last == IF Len(rest) >= 2 THEN rest[Len(rest)] ELSE Word(None)
             port_suffix == IF last.isdigit /\ last.n <= 99999 THEN last.n ELSE NoPort
             host_part == IF port_suffix >= 1 /\ port_suffix <= 65535
                          THEN SubSeq(rest, 1, Len(rest) - 1) ELSE rest
         IN  [scheme |-> parts[1].s, host |-> host_part, port |-> port_suffix]

\* _parse_url: NoParsed when the URL's port is out of range.
parse_url(url) ==
    IF url.port > 65535 THEN NoParsed
    ELSE LET port == IF url.port = NoPort THEN (IF url.scheme = "https" THEN 443 ELSE 80)
                     ELSE url.port
             is_ip == \A i \in 1..Len(url.host) : url.host[i].isdigit
         IN  IF is_ip
             THEN [is_ip |-> TRUE, host_ip |-> host_text(url.host), host_name |-> None,
                   hostname |-> None, port |-> port, protocol |-> url.scheme]
             ELSE [is_ip |-> FALSE, host_ip |-> UNRESOLVED_IP, host_name |-> url.host[1].s,
                   hostname |-> url.host[1].s, port |-> port, protocol |-> url.scheme]

\* parse_gowitness_directory on a directory of one image and no metadata:
\* the records and the number of errors.
parse_gowitness_directory(image) ==
    LET url == filename_to_url_guess(image)
        parsed == IF url = NoUrl THEN NoParsed ELSE parse_url(url)
    IN  IF parsed = NoParsed THEN [records |-> <<>>, errors |-> 2]
        ELSE [records |-> <<GowitnessRec(parsed, "sha-1", <<>>, <<>>)>>, errors |-> 0]

\* An uploaded archive that holds one image.
ShotsZip(image) ==
    [name |-> "shots.zip", ext |-> ".zip", readable |-> TRUE,
     content |-> [kind |-> "shots_zip", image |-> image,
                  recs |-> parse_gowitness_directory(image).records,
                  errors |-> parse_gowitness_directory(image).errors]]

Schemes == {"http", "https"}

ImageStems ==
    {<<Word(s), Num(10), Num(0), Num(0), Num(d)>> : s \in Schemes, d \in {9, 0, 77777}}
    \cup {<<Word(s), Num(10), Num(0), Num(0), Num(9), Num(p)>> : s \in Schemes, p \in {8080, 70000}}
    \cup {<<Word(s), Word("a")>> : s \in Schemes \cup {"ftp"}}
    \cup {<<Word("https"), Word("a"), Num(8443)>>, <<Word("shot")>>}

GuessBatches == {<<ShotsZip(image)>> : image \in ImageStems}

NextGuess ==
    \/ ReceiveUpload(GuessBatches)
    \/ ImportFile
    \/ RespondUpload
    \/ CloseUpload

SpecGuess == InitEmpty /\ [][NextGuess]_vars

\* The stem scheme-a-b-c-d of an IPv4 address, with no port suffix.
DashedAddress(image) ==
    /\ Len(image) = 5
    /\ image[1].s \in Schemes
    /\ \A i \in 2..5 : image[i].isdigit /\ image[i].n <= 255

\* C24 as stated: the import, into an empty project, of an archive with one
\* image named scheme-a-b-c-d.ext leaves one host a.b.c.d, online, one port
\* with the scheme's default number on tcp found by the screenshot tool, and
\* one evidence row.
DashedNameImported ==
    [][(/\ hosts = <<>>
        /\ upload.status = "files"
        /\ Len(upload'.results) = 1
        /\ DashedAddress(upload.files[1].content.image))
          => LET image == upload.files[1].content.image
             IN  /\ Len(hosts') = 1
                 /\ hosts'[1].ip = IPv4(image[2].n, image[3].n, image[4].n, image[5].n)
                 /\ hosts'[1].status = "online"
                 /\ Len(ports') = 1
                 /\ ports'[1].number = (IF image[1].s = "https" THEN 443 ELSE 80)
                 /\ ports'[1].protocol = "tcp"
                 /\ ports'[1].discovered_by = GOWITNESS_SOURCE
                 /\ Len(evidence') = 1]_vars

(***************************************************************************)
(* SpecMasscan: one masscan list file, parsed and imported into an empty   *)
(* project.  replay.file keeps the lines of the file.                      *)
(***************************************************************************)
MaxLines == 3

MasscanLine(status, protocol, number, ip) ==
    [status |-> status, protocol |-> protocol, port |-> number, ip |-> ip]

\* _parse_list_line: TRUE when the line yields a tuple.
parse_list_line(line) ==
    /\ line.status \in {"open", "closed", "open|filtered", "closed|filtered"}
    /\ line.protocol \in {"tcp", "udp"}
    /\ line.port >= 1 /\ line.port <= 65535

\* The order of sorted() on the addresses' texts, for addresses whose texts
\* are ordered as their numbers are (IPv4 texts of one length before the
\* IPv6 texts used here).
ip_text_before(a, b) ==
    \/ a.kind = "v4" /\ b.kind = "v6"
    \/ a.kind = b.kind /\ (a.hi < b.hi \/ (a.hi = b.hi /\ a.lo <= b.lo))

RECURSIVE SortedIps(_)
SortedIps(S) ==
    IF S = {} THEN <<>>
    ELSE LET m == CHOOSE x \in S : \A y \in S : ip_text_before(x, y)
         IN  <<m>> \o SortedIps(S \ {m})

\* parse_masscan_list: the host groups, sorted by address, each with the
\* ports of its lines in file order.
parse_masscan_list(lines) ==
    LET valid == SelectSeq(lines, parse_list_line)
        ips == SortedIps({valid[i].ip : i \in 1..Len(valid)})
        group(ip) ==
            LET of_ip(l) == l.ip = ip
                mine == SelectSeq(valid, of_ip)
            IN  [ip |-> ip,
                 ports |-> [i \in 1..Len(mine) |->
                               [port_id |-> mine[i].port, protocol |-> mine[i].protocol,
                                state |-> mine[i].status]]]
    IN  [i \in 1..Len(ips) |-> group(ips[i])]

Ip7 == IPv4(10, 0, 0, 7)

MasscanLines ==
    {MasscanLine("open", pr, n, ip) : pr \in {"tcp", "udp"}, n \in {443, 80}, ip \in {Ip7, IpB}}
    \cup {MasscanLine("closed", "tcp", 443, Ip7), MasscanLine("#", "tcp", 443, Ip7),
          MasscanLine("open", "tcp", 0, Ip7), MasscanLine("open", "TCP", 80, IpB)}

MasscanFiles == UNION {[1..n -> MasscanLines] : n \in 0..MaxLines}

\* run_masscan_import is entered with the parse result of a file.
MasscanOpen(files) ==
    /\ run = Idle
    /\ replay.pass = 0
    /\ \E lines \in files :
          /\ replay' = [NoReplay EXCEPT !.file = lines, !.pass = 1, !.hosts = Len(hosts),
                                        !.ports = Len(ports)]
          /\ run' = [Idle EXCEPT !.tool = MASSCAN_SOURCE,
                                 !.left = Len(parse_masscan_list(lines))]
    /\ summary' = ZeroSummary
    /\ UNCHANGED <<hosts, subnets, ports, evidence, upload, workers, audit, locks, clock, answer>>

\* One pass of the loop of run_masscan_import, on the next host group.
MasscanGroup ==
    /\ Importing(MASSCAN_SOURCE)
    /\ replay.pass = 1
    /\ LET groups == parse_masscan_list(replay.file)
           mh == groups[Len(groups) - run.left + 1]
       IN  \E existing \in masscan_host_lookup(hosts, mh) :
              \E r \in {masscan_import_host(Store, mh, existing)} :
                 /\ hosts' = r.hosts
                 /\ subnets' = r.subnets
                 /\ ports' = r.ports
                 /\ summary' = r.summary
    /\ run' = Consumed
    /\ UNCHANGED <<evidence, replay, upload, workers, audit, locks, clock, answer>>

\* run_masscan_import returns its summary.
MasscanReturn ==
    /\ ImportDone(MASSCAN_SOURCE)
    /\ replay.pass = 1
    /\ replay' = [replay EXCEPT !.pass = 2]
    /\ UNCHANGED <<hosts, subnets, ports, evidence, run, summary, upload, workers, audit, locks, clock, answer>>

NextMasscan ==
    \/ MasscanOpen(MasscanFiles)
    \/ MasscanGroup
    \/ MasscanReturn

SpecMasscan == InitEmpty /\ [][NextMasscan]_vars

\* The lines of a file that name an open or closed port in 1..65535.
PortLines(lines) == {i \in 1..Len(lines) : parse_list_line(lines[i])}

\* C25: when the import of a masscan list into an empty project has ended,
\* the hosts are one per distinct address of the file's port lines, all
\* online; the ports are one per distinct (address, protocol, number), all
\* discovered by masscan; hosts_created and ports_created are those two
\* numbers; and the file of the single line "open tcp 443 10.0.0.7" leaves
\* one host 10.0.0.7, online, and one port 443/tcp.
MasscanIntoEmpty ==
    (ImportDone(MASSCAN_SOURCE) /\ replay.pass >= 1 /\ replay.hosts = 0 /\ replay.ports = 0) =>
        LET lines == replay.file
            ips == {lines[i].ip : i \in PortLines(lines)}
            keys == {<<lines[i].ip, lines[i].protocol, lines[i].port>> : i \in PortLines(lines)}
        IN  /\ Len(hosts) = Cardinality(ips)
            /\ \A ip \in ips : \E h \in HostIds(hosts) : hosts[h].ip = ip
            /\ \A h \in HostIds(hosts) : hosts[h].status = "online"
            /\ Len(ports) = Cardinality(keys)
            /\ \A k \in keys : \E p \in PortIds(ports) :
                  /\ hosts[ports[p].host_id].ip = k[1]
                  /\ ports[p].protocol = k[2]
                  /\ ports[p].number = k[3]
            /\ \A p \in PortIds(ports) : ports[p].discovered_by = MASSCAN_SOURCE
            /\ summary.hosts_created = Cardinality(ips)
            /\ summary.ports_created = Cardinality(keys)
            /\ lines = <<MasscanLine("open", "tcp", 443, Ip7)>> =>
                  /\ summary.hosts_created = 1 /\ summary.ports_created = 1
                  /\ Len(hosts) = 1 /\ hosts[1].ip = Ip7 /\ hosts[1].status = "online"
                  /\ Len(ports) = 1 /\ ports[1].number = 443 /\ ports[1].protocol = "tcp"
                  /\ ports[1].discovered_by = MASSCAN_SOURCE

\* C25 witness: an import has ended on a file of three port lines that name
\* two addresses and repeat one port key, with two hosts and two ports
\* created and the repeated line counted as an update.
MasscanIntoEmptySeen ==
    /\ ImportDone(MASSCAN_SOURCE) /\ replay.pass = 2
    /\ Len(replay.file) = 3 /\ Cardinality(PortLines(replay.file)) = 3
    /\ summary.hosts_created = 2
    /\ summary.ports_created = 2
    /\ summary.ports_updated = 1
    /\ Len(hosts) = 2 /\ Len(ports) = 2

(***************************************************************************)
(* Record locks.  locks is the locks table, a lock's id its position; a    *)
(* deleted row of any table keeps its position and matches no lookup.      *)
(* clock is the time _now() returns.                                       *)
(***************************************************************************)
LOCKABLE_RECORD_TYPES == {"host", "port", "subnet", "note", "vulnerability_instance"}

\* The fields the Settings class declares.
SettingsFields ==
    {"database_url", "redis_url", "attachments_dir", "secret_key", "cors_origins",
     "jwt_algorithm", "jwt_expire_hours", "admin_password"}

MaxClock == 3

MaxLocks == 2

Users == {1, 2}

ThisProject == "project"

LockRow(project, type, id, user, expires) ==
    [project_id |-> project, record_type |-> type, record_id |-> id,
     locked_by_user_id |-> user, expires_at |-> expires]

DeletedLock == LockRow("deleted", "deleted", 0, 0, 0)

DeletedHost == HostRow([kind |-> "deleted", hi |-> 0, lo |-> 0], None, None, 0, None)

DeletedPort == PortRow(0, None, 0, None, None, None, <<>>, None, CreatedBy(None, None, None, None, <<>>))

DeletedSubnet == [kind |-> "deleted", hi |-> 0, lo |-> 0, prefix |-> 0]

DeletedEvidence == EvidenceRow(0, None, <<>>, None, FALSE)

\* _expires_at: the read of settings.lock_ttl_seconds raises, Settings
\* declaring no such field.
expires_at(t) ==
    IF "lock_ttl_seconds" \in SettingsFields THEN [raised |-> None, at |-> t]
    ELSE [raised |-> "AttributeError", at |-> t]

get_lock(ls, t, project, type, id) ==
    First({l \in 1..Len(ls) : /\ ls[l].project_id = project
                              /\ ls[l].record_type = type
                              /\ ls[l].record_id = id
                              /\ ls[l].expires_at > t})

acquire_lock(ls, t, project, type, id, user, existing) ==
    IF type \notin LOCKABLE_RECORD_TYPES THEN [locks |-> ls, lock |-> 0, raised |-> "ValueError"]
    ELSE IF existing # 0 /\ ls[existing].locked_by_user_id # user
    THEN [locks |-> ls, lock |-> 0, raised |-> "PermissionError"]
    ELSE LET e == expires_at(t)
         IN  IF e.raised # None THEN [locks |-> ls, lock |-> 0, raised |-> e.raised]
             ELSE IF existing # 0
             THEN [locks |-> [ls EXCEPT ![existing].expires_at = e.at],
                   lock |-> existing, raised |-> None]
             ELSE [locks |-> Append(ls, LockRow(project, type, id, user, e.at)),
                   lock |-> Len(ls) + 1, raised |-> None]

\* The row of that id, 0 when there is none.
lock_by_id(ls, lock_id) ==
    IF lock_id \in 1..Len(ls) /\ ls[lock_id] # DeletedLock THEN lock_id ELSE 0

release_lock(ls, lock_id, user) ==
    LET lock == lock_by_id(ls, lock_id)
    IN  IF lock = 0 \/ ls[lock_id].locked_by_user_id # user
        THEN [locks |-> ls, released |-> FALSE]
        ELSE [locks |-> [ls EXCEPT ![lock] = DeletedLock], released |-> TRUE]

renew_lock(ls, t, lock_id, user) ==
    LET lock == lock_by_id(ls, lock_id)
        e == expires_at(t)
    IN  IF lock = 0 \/ ls[lock_id].locked_by_user_id # user \/ ls[lock_id].expires_at <= t
        THEN [locks |-> ls, lock |-> 0, raised |-> None]
        ELSE IF e.raised # None THEN [locks |-> ls, lock |-> 0, raised |-> e.raised]
        ELSE [locks |-> [ls EXCEPT ![lock].expires_at = e.at], lock |-> lock, raised |-> None]

\* A variant of require_lock that lets every caller through.
require_lock_never(ls, existing, user) == None

\* require_lock, on the row its get_lock returned: what it raises.
require_lock(ls, existing, user) ==
    IF existing = 0 THEN "PermissionError"
    ELSE IF ls[existing].locked_by_user_id # user THEN "PermissionError"
    ELSE None

list_locks_for_project(ls, t, project) ==
    {l \in 1..Len(ls) : ls[l].project_id = project /\ ls[l].expires_at > t}

Answer(op, user, type, id, code) ==
    [op |-> op, user |-> user, type |-> type, id |-> id, code |-> code]

\* The rows of a table that are not deleted.
Kept(rows, deleted) == {i \in 1..Len(rows) : rows[i] # deleted}

\* ON DELETE CASCADE from hosts to ports and from ports to evidence.
delete_hosts(st, gone) ==
    LET gone_ports == {p \in PortIds(st.ports) : st.ports[p].host_id \in gone}
    IN  [st EXCEPT
           !.hosts = [h \in 1..Len(st.hosts) |->
                         IF h \in gone THEN DeletedHost ELSE st.hosts[h]],
           !.ports = [p \in 1..Len(st.ports) |->
                         IF p \in gone_ports THEN DeletedPort ELSE st.ports[p]],
           !.evidence = [e \in 1..Len(st.evidence) |->
                            IF st.evidence[e].port_id \in gone_ports THEN DeletedEvidence
                            ELSE st.evidence[e]]]

delete_port(st, id) ==
    [st EXCEPT !.ports[id] = DeletedPort,
               !.evidence = [e \in 1..Len(st.evidence) |->
                                IF st.evidence[e].port_id = id THEN DeletedEvidence
                                ELSE st.evidence[e]]]

delete_subnet(st, id) ==
    LET hosts_in_subnet == {h \in Kept(st.hosts, DeletedHost) : st.hosts[h].subnet_id = id}
    IN  [delete_hosts(st, hosts_in_subnet) EXCEPT !.subnets[id] = DeletedSubnet]

\* PATCH and DELETE of a record of one table, by its type.
Table(st, type) ==
    IF type = "host" THEN Kept(st.hosts, DeletedHost)
    ELSE IF type = "port" THEN Kept(st.ports, DeletedPort)
    ELSE Kept(st.subnets, DeletedSubnet)

update_record(st, type, id, patch) ==
    IF type = "host" THEN [st EXCEPT !.hosts[id][patch.field] = patch.value]
    ELSE IF type = "port"
    THEN [st EXCEPT !.ports = update_port(@, id, patch.field, patch.value)]
    ELSE [st EXCEPT !.subnets[id] = patch.value]

delete_record(st, type, id) ==
    IF type = "host" THEN delete_hosts(st, {id})
    ELSE IF type = "port" THEN delete_port(st, id)
    ELSE delete_subnet(st, id)

\* The handler of PATCH (a patch is given) or DELETE /{type}s/{id}: the store
\* it leaves and its status code.
guarded_request(st, ls, type, id, user, existing, op, patch) ==
    IF id \notin Table(st, type) THEN [store |-> st, code |-> 404]
    ELSE IF require_lock(ls, existing, user) # None THEN [store |-> st, code |-> 409]
    ELSE IF op = "PATCH" THEN [store |-> update_record(st, type, id, patch), code |-> 200]
    ELSE [store |-> delete_record(st, type, id), code |-> 204]

\* A project of two hosts of one subnet, one of them with a port and an
\* attachment, as POST /hosts, POST /ports and POST /ports/{id}/attachments
\* leave it.
InitLock ==
    LET h1 == create_host(<<>>, <<>>, [ip |-> IpA, dns_name |-> None, status |-> None])
        h2 == create_host(h1.hosts, h1.subnets,
                          [ip |-> IPv4(10, 0, 0, 6), dns_name |-> None, status |-> None])
    IN  /\ hosts = h2.hosts
        /\ subnets = h2.subnets
        /\ ports = create_port(<<>>, [host_id |-> 1, protocol |-> "tcp", number |-> 80,
                                      state |-> None, service_name |-> None,
                                      service_version |-> None, banner |-> <<>>,
                                      discovered_by |-> None])
        /\ evidence = upload_port_attachment(<<>>, 1)
        /\ run = Idle
        /\ summary = ZeroSummary
        /\ replay = NoReplay
        /\ upload = NoUpload
        /\ workers = NoWorkers
        /\ audit = NoAudit
        /\ locks = NoLocks
        /\ clock = 0
        /\ answer = NoResponse

RecordTypes == {"host", "port", "subnet"}

RecordIds == {1, 2}

Patches(type) ==
    IF type = "host"
    THEN {[field |-> "status", value |-> "offline"]}
    ELSE IF type = "port" THEN {[field |-> "state", value |-> "closed"]}
    ELSE {[field |-> "cidr", value |-> [kind |-> "v4", hi |-> 0, lo |-> IPv4(10, 0, 0, 0).lo,
                                        prefix |-> 16]]}

\* POST /locks
CreateLock ==
    /\ \E u \in Users, type \in RecordTypes \cup {"project"}, id \in RecordIds :
          \E existing \in get_lock(locks, clock, ThisProject, type, id) :
             \E r \in {acquire_lock(locks, clock, ThisProject, type, id, u, existing)} :
                /\ Len(r.locks) <= MaxLocks
                /\ locks' = r.locks
                /\ answer' = Answer("POST /locks", u, type, id,
                                    IF r.raised = "PermissionError" THEN 409
                                    ELSE IF r.raised = "ValueError" THEN 400
                                    ELSE IF r.raised = "AttributeError" THEN 500 ELSE 201)
    /\ UNCHANGED <<hosts, subnets, ports, evidence, run, summary, replay, upload, workers, audit,
                   clock>>

\* DELETE /locks/{lock_id}
DeleteLock ==
    /\ \E u \in Users, lock_id \in 1..MaxLocks :
          \E r \in {release_lock(locks, lock_id, u)} :
             /\ locks' = r.locks
             /\ answer' = Answer("DELETE /locks", u, "lock", lock_id,
                                 IF r.released THEN 204 ELSE 404)
    /\ UNCHANGED <<hosts, subnets, ports, evidence, run, summary, replay, upload, workers, audit,
                   clock>>

\* POST /locks/{lock_id}/renew
RenewLock ==
    /\ \E u \in Users, lock_id \in 1..MaxLocks :
          \E r \in {renew_lock(locks, clock, lock_id, u)} :
             /\ locks' = r.locks
             /\ answer' = Answer("POST /locks/renew", u, "lock", lock_id,
                                 IF r.raised # None THEN 500
                                 ELSE IF r.lock = 0 THEN 404 ELSE 200)
    /\ UNCHANGED <<hosts, subnets, ports, evidence, run, summary, replay, upload, workers, audit,
                   clock>>

\* Time passes between two requests.
Tick ==
    /\ clock < MaxClock
    /\ clock' = clock + 1
    /\ answer' = NoResponse
    /\ UNCHANGED <<hosts, subnets, ports, evidence, run, summary, replay, upload, workers, audit,
                   locks>>

\* PATCH /hosts/{id}, /ports/{id}, /subnets/{id}
UpdateRecord ==
    /\ \E u \in Users, type \in RecordTypes, id \in RecordIds :
          \E patch \in Patches(type), existing \in get_lock(locks, clock, ThisProject, type, id) :
             \E r \in {guarded_request(Store, locks, type, id, u, existing, "PATCH", patch)} :
                /\ Commit(r.store)
                /\ answer' = Answer("PATCH", u, type, id, r.code)
    /\ UNCHANGED <<run, replay, upload, workers, audit, locks, clock>>

\* DELETE /hosts/{id}, /ports/{id}, /subnets/{id}
DeleteRecord ==
    /\ \E u \in Users, type \in RecordTypes, id \in RecordIds :
          \E existing \in get_lock(locks, clock, ThisProject, type, id) :
             \E r \in {guarded_request(Store, locks, type, id, u, existing, "DELETE", None)} :
                /\ Commit(r.store)
                /\ answer' = Answer("DELETE", u, type, id, r.code)
    /\ UNCHANGED <<run, replay, upload, workers, audit, locks, clock>>

NextLock ==
    \/ CreateLock
    \/ DeleteLock
    \/ RenewLock
    \/ Tick
    \/ UpdateRecord
    \/ DeleteRecord

SpecLock == InitLock /\ [][NextLock]_vars

\* The caller of the request just answered holds an unexpired lock on its
\* record, in the state the request found.
HoldsLock(req) ==
    \E l \in 1..Len(locks) :
        /\ locks[l].project_id = ThisProject
        /\ locks[l].record_type = req.type
        /\ locks[l].record_id = req.id
        /\ locks[l].locked_by_user_id = req.user
        /\ locks[l].expires_at > clock

Rows == <<hosts, subnets, ports, evidence>>

Unexpired(ls, t, type, id) ==
    {l \in 1..Len(ls) : ls[l].record_type = type /\ ls[l].record_id = id /\ ls[l].expires_at > t}

\* C27: a record has at most one unexpired lock at any time; POST /locks by
\* another user while an unexpired lock exists is refused (PermissionError,
\* 409) and changes no lock; any other POST /locks leaves the caller the
\* holder of the record's one lock, the row it held before when it held one;
\* a lock its owner released is absent from the project's active-lock list.
OneLockPerRecord ==
    /\ [](\A type \in RecordTypes, id \in RecordIds :
              Cardinality(Unexpired(locks, clock, type, id)) <= 1)
    /\ [][/\ (answer'.op = "DELETE /locks" /\ answer'.code = 204) =>
                answer'.id \notin list_locks_for_project(locks', clock', ThisProject)
          /\ (answer'.op = "POST /locks" /\ answer'.type \in RecordTypes) =>
                LET held == Unexpired(locks, clock, answer'.type, answer'.id)
                IN  IF \E l \in held : locks[l].locked_by_user_id # answer'.user
                    THEN answer'.code = 409 /\ locks' = locks
                    ELSE /\ answer'.code = 201
                         /\ Len(locks') = Len(locks) + (IF held = {} THEN 1 ELSE 0)
                         /\ \E l \in 1..Len(locks') :
                               /\ locks'[l].record_type = answer'.type
                               /\ locks'[l].record_id = answer'.id
                               /\ locks'[l].locked_by_user_id = answer'.user
                               /\ locks'[l].expires_at > clock
                               /\ held # {} => l \in held]_vars

\* The sentinel rows that carry a hostname.
SentinelRows(hs, dns) ==
    {i \in HostIds(hs) : hs[i].ip = UNRESOLVED_IP /\ hs[i].dns_name = dns}

\* C28: in every reachable store, whenever a sentinel host carries the
\* hostname of a hostname-only record (an unresolved nmap host, a screenshot
\* of a URL with a host name), the row the reconciler's lookup returns is a
\* sentinel host of that hostname, also when a resolved host carries the
\* same hostname.
SentinelMatchedFirst ==
    /\ \A nh \in NmapHostsOnly :
          (nh.is_unresolved /\ SentinelRows(hosts, nh.hostname) # {}) =>
              nmap_host_lookup(hosts, nh) \subseteq SentinelRows(hosts, nh.hostname)
    /\ \A rec \in GowitnessHosts :
          (~rec.parsed.is_ip /\ SentinelRows(hosts, gowitness_dns(rec.parsed)) # {}) =>
              gowitness_host_lookup(hosts, rec.parsed)
                  \subseteq SentinelRows(hosts, gowitness_dns(rec.parsed))

(***************************************************************************)
(* SpecZip: uploads of one ZIP archive, given by its members in directory  *)
(* order.  A member has a name, a content and, for an image, its stem.     *)
(***************************************************************************)
MaxMembers == 3

Member(name, ext, content) == [name |-> name, ext |-> ext, content |-> content]

\* n.lower().endswith(".xml") and not n.startswith("__")
is_xml_member(m) == m.ext = ".xml" /\ ~StartsWith(m.name, <<"__">>)

\* The loop of detect_import_format: the first member that is read and
\* sniffed as nmap XML, 0 when there is none.
sniffed_nmap_member(members) ==
    LET found == {k \in 1..Len(members) :
                     is_xml_member(members[k]) /\ is_nmap_xml(members[k].content)}
    IN  IF found = {} THEN 0 ELSE CHOOSE k \in found : \A m \in found : k <= m

\* The loop of run_import: the first .xml member, 0 when there is none.
extracted_member(members) ==
    LET found == {k \in 1..Len(members) : is_xml_member(members[k])}
    IN  IF found = {} THEN 0 ELSE CHOOSE k \in found : \A m \in found : k <= m

\* What detect_import_format finds in the archive's directory.
zip_kind(members) ==
    IF sniffed_nmap_member(members) # 0 THEN "nmap_zip"
    ELSE IF \E k \in 1..Len(members) : members[k].ext \in {".png", ".jpg", ".jpeg", ".jsonl"}
    THEN "shots_zip"
    ELSE "other_zip"

\* The upload of an archive: its kind as the sniffer finds it, and the parse
\* result of the member the importer reads (the extracted member for an nmap
\* archive, the directory of screenshots otherwise).
ZipUpload(members) ==
    LET kind == zip_kind(members)
        k == extracted_member(members)
        shots == {j \in 1..Len(members) : members[j].ext = ".png"}
        shot == IF shots = {} THEN [records |-> <<>>, errors |-> 1]
                ELSE parse_gowitness_directory(
                         members[CHOOSE j \in shots : \A i \in shots : j <= i].content.stem)
    IN  [name |-> "upload.zip", ext |-> ".zip", readable |-> TRUE,
         content |-> [kind |-> kind, members |-> members,
                      recs |-> IF kind = "nmap_zip" THEN members[k].content.recs
                               ELSE shot.records,
                      errors |-> IF kind = "nmap_zip" THEN members[k].content.errors
                                 ELSE shot.errors]]

\* parse_nmap_xml on a member: an nmap run with one host, or XML whose root
\* is not nmaprun (one error, no host).
XmlContent(kind, recs, errors) == [kind |-> kind, recs |-> recs, errors |-> errors, stem |-> <<>>]

ZipMembers ==
    {Member(<<"scan", ".xml">>, ".xml",
            XmlContent("nmap_xml", <<NmapHostRec(IpA, None, "up", <<>>)>>, 0)),
     Member(<<"late", ".xml">>, ".xml",
            XmlContent("nmap_xml", <<NmapHostRec(IpB, None, "up", <<>>)>>, 0)),
     Member(<<"pom", ".xml">>, ".xml", XmlContent("xml", <<>>, 1)),
     Member(<<"__", "MACOSX/scan", ".xml">>, ".xml", XmlContent("xml", <<>>, 1)),
     Member(<<"readme", ".txt">>, ".txt", XmlContent("other", <<>>, 0)),
     Member(<<"http-a", ".png">>, ".png",
            [kind |-> "image", recs |-> <<>>, errors |-> 0, stem |-> <<Word("http"), Word("a")>>])}

ZipBatches == {<<ZipUpload(members)>> : members \in UNION {[1..n -> ZipMembers] : n \in 1..MaxMembers}}

NextZip ==
    \/ ReceiveUpload(ZipBatches)
    \/ ImportFile
    \/ RespondUpload
    \/ CloseUpload

SpecZip == InitEmpty /\ [][NextZip]_vars

\* C29: the import, into an empty project, of an archive that the sniffer
\* detects as nmap stores the host of the member the sniffer validated, also
\* when a .xml member that is not nmap XML comes before it in the archive.
ZipImportsSniffedMember ==
    [][(/\ hosts = <<>>
        /\ upload.status = "files"
        /\ Len(upload'.results) = 1
        /\ upload.files[1].content.kind = "nmap_zip")
          => LET members == upload.files[1].content.members
                 m == members[sniffed_nmap_member(members)]
             IN  /\ Len(hosts') = 1
                 /\ hosts'[1].ip = m.content.recs[1].ip]_vars

(***************************************************************************)
(* SpecCount: nmap imports of files of up to two host elements, with and   *)
(* without ports and notes, one of them with a name the hosts table        *)
(* rejects, run one after the other into the same project.                 *)
(***************************************************************************)
CountPorts ==
    {<<>>,
     <<NmapPortRec(80, "open", None, None, <<>>)>>,
     <<NmapPortRec(80, "open", "http", "1.0", <<>>)>>,
     <<NmapPortRec(80, "open", "http", None,
                   <<Script("http-headers", <<"HTTP/1.1 200 OK", "X-Frame-Options: DENY">>)>>)>>}

CountHosts ==
    {NmapHostRec(IpA, n, "up", plist) : n \in {None, LongName}, plist \in CountPorts}
    \cup {NmapHostRec(IpB, None, "down", <<NmapPortRec(80, "open", "http", "1.0", <<>>)>>)}

NextCount ==
    \/ StartImportUpTo({NMAP_SOURCE}, BOOLEAN, MaxBadFileLen)
    \/ NmapRecord(CountHosts)
    \/ FinishImport
    \/ FinishRaises

SpecCount == InitEmpty /\ [][NextCount]_vars

\* hosts_created + hosts_updated of a summary.
hosts_reconciled(sm) == sm.hosts_created + sm.hosts_updated

\* C30: the counters of an nmap import equal the store delta.  Over the
\* reconciliation of each host element of the file, hosts_created grows by
\* the number of host rows added, ports_created by the port rows added and
\* evidence_created by the evidence rows added, and hosts_created +
\* hosts_updated grows by one exactly when the element's host-level
\* reconciliation did not fail (no error string was appended for it); the
\* summary starts at zero, so the same holds for the whole import.
SummaryIsStoreDelta ==
    /\ [](run.tool = "idle" => summary = ZeroSummary)
    /\ [][Importing(NMAP_SOURCE) =>
             /\ summary'.hosts_created - summary.hosts_created = Len(hosts') - Len(hosts)
             /\ summary'.ports_created - summary.ports_created = Len(ports') - Len(ports)
             /\ summary'.evidence_created - summary.evidence_created
                    = Len(evidence') - Len(evidence)
             /\ hosts_reconciled(summary') - hosts_reconciled(summary)
                    = (IF summary'.errors = summary.errors THEN 1 ELSE 0)
             /\ summary'.errors - summary.errors \in {0, 1}]_vars

\* An import into a project that already holds a host has added one host
\* with a port and a note, and the reconciliation of its second host failed.
SummaryIsStoreDeltaSeen ==
    /\ ImportDone(NMAP_SOURCE)
    /\ Len(hosts) = 2
    /\ summary.hosts_created = 1
    /\ summary.hosts_updated = 0
    /\ summary.ports_created = 1
    /\ summary.evidence_created = 1
    /\ summary.errors = 1

====
